---- MODULE Spec2Model ----
(***************************************************************************)
(* Model of the segmentation and serialization core of Comfyui-ASR_NZ:     *)
(*   FunASREngine._simple_segment_by_punctuation   (Proportional Segmenter)*)
(*   FunASREngine._smart_segment_with_punctuation  (Smart Segmenter)       *)
(*   AudioVideoToTimestampedText.transcribe_with_timestamps: the choice of *)
(*   the engine, the format dispatch, _to_srt, _to_vtt, _to_txt, json.dumps*)
(*   and the time formatting                                               *)
(*   WhisperEngine.transcribe_with_timestamps      (segment-level engine)  *)
(*                                                                         *)
(* Strings are sequences of characters, a character being a one-character  *)
(* TLA+ string; the full-width (CJK) punctuation marks, which the module   *)
(* language cannot spell, are written "fw," "fw." "fw;" "fw!" "fw?" "fw("  *)
(* "fw)".  Times are exact rationals <<numerator, denominator>> in lowest  *)
(* terms (seconds), so that i * (D / N) and ms / 1000.0 are computed       *)
(* without rounding; floating-point rounding is outside the model.         *)
(***************************************************************************)
EXTENDS Integers, Sequences, FiniteSets, TLC

VARIABLES
    pc,               \* position of the call being modelled
    text,             \* the transcript text handed to the segmenter
    tokens,           \* jieba.lcut(text): the tokenizer's units, in order
    word_timestamps,  \* token_times: a sequence of ranges <<start_ms, end_ms>>
    total_duration,   \* total duration in whole seconds (Proportional Segmenter)
    words,            \* Smart Segmenter: the remaining units
    text_length,      \* Smart Segmenter: the fixed window length (default 8)
    word_index,       \* Smart Segmenter: the cursor into word_timestamps
    segments,         \* Smart Segmenter: segments appended so far
    result,           \* the value returned to the caller
    raised,           \* TRUE iff an exception propagated to the caller
    fellBack,         \* TRUE iff the except branch (line 331) ran
    ser_segments,     \* Serializer: the segment sequence to serialize
    output,           \* Serializer: the string returned
    format,           \* node: the format selector
    error,            \* the exception that propagated: <<>> or <<type, argument>>
    key_order,        \* insertion order of the keys of the segment dicts
    history,          \* the serializer calls made so far: <<format, outcome>>
    seconds,          \* time formatting: the time to format
    whisper_model,    \* node: TRUE iff a Whisper model is supplied
    funasr_model,     \* node: TRUE iff a FunASR model is supplied
    native,           \* Whisper: result['segments'] of the model
    engine_calls,     \* node: the engines called, in order
    segmenter_calls,  \* the segmenters applied, in order
    iterations,       \* Smart Segmenter: iterations of the loop entered so far
    audio_read,       \* node: TRUE iff audio['data'] has been read
    audio_kind,       \* FunASR engine: the type of audio_data
    temp_file,        \* FunASR engine: the local temp_file, "None" or a name
    files,            \* the file system: the files, each a name and a content
    model_result,     \* FunASR engine: the shape of the model's result
    use_smart_segmentation,  \* FunASR engine: the parameter of that name
    actual_duration,  \* FunASR engine: the duration of the audio, in seconds
    calls,            \* concurrent FunASR calls: the state of each call
    swallowed         \* FunASR engine: TRUE iff os.remove raised (line 242)

vars == <<pc, text, tokens, word_timestamps, total_duration, text_length, words,
          word_index, segments, result, raised, fellBack, ser_segments, output,
          format, error, key_order, history, seconds, whisper_model,
          funasr_model, native, engine_calls, segmenter_calls, iterations,
          audio_read, audio_kind, temp_file, files, model_result,
          use_smart_segmentation, actual_duration, calls, swallowed>>

\* the inputs of a segmenter call
inVars == <<text, tokens, word_timestamps, total_duration, text_length>>

\* the state of the node: engine selection, engine result, serialization
nodeVars == <<format, error, key_order, history, seconds, whisper_model,
              funasr_model, native, engine_calls, segmenter_calls>>

\* the state of a call of the FunASR engine, and of concurrent calls
engineVars == <<audio_kind, temp_file, files, model_result,
                use_smart_segmentation, actual_duration, calls, swallowed>>

serVars == <<ser_segments, output, nodeVars, audio_read, engineVars>>

-----------------------------------------------------------------------------
(* Bounds of the model.                                                    *)

MaxTextLen == 5     \* longest text given to the Proportional Segmenter alone
MaxUnits == 12      \* most units in a tokenized text
MaxTimes == 10      \* most entries of token_times
MaxSegs == 2        \* most segments given to the serializer
MaxCalls == 2       \* most calls of the serializer, or of the time formatters, in a row

-----------------------------------------------------------------------------
(* Characters and strings.                                                 *)

\* the punctuation string of _smart_segment_with_punctuation (line 260)
punctuation ==
    <<"fw,", "fw.", "fw;", "fw!", "fw?", "!", ",", ";", ".", "?", ":",
      "(", ")", "fw(", "fw)">>

\* the character class of the re.split of _simple_segment_by_punctuation
Terminators == {"fw.", "fw!", "fw?", "fw;", ".", "!", "?", ";"}

Range(s) == {s[i] : i \in 1..Len(s)}

\* ''.join(list_of_strings)
RECURSIVE join(_)
join(ws) == IF ws = <<>> THEN <<>> ELSE Head(ws) \o join(Tail(ws))

\* str.strip(): whitespace removed at both ends (the space is the only
\* whitespace character of the model's alphabet)
RECURSIVE lstrip(_)
lstrip(s) == IF s # <<>> /\ Head(s) = " " THEN lstrip(Tail(s)) ELSE s

RECURSIVE rstrip(_)
rstrip(s) ==
    IF s # <<>> /\ s[Len(s)] = " " THEN rstrip(SubSeq(s, 1, Len(s) - 1)) ELSE s

strip(s) == rstrip(lstrip(s))

\* Python's  word in punctuation  for two strings: word is a contiguous
\* substring of punctuation
IsSubstring(w, s) ==
    \E i \in 0..(Len(s) - Len(w)) : \A k \in 1..Len(w) : s[i + k] = w[k]

-----------------------------------------------------------------------------
(* Exact times.                                                            *)

RECURSIVE GCD(_, _)
GCD(a, b) == IF b = 0 THEN a ELSE GCD(b, a % b)

\* the rational n / d in lowest terms, d > 0
Rat(n, d) == LET g == GCD(n, d) IN <<n \div g, d \div g>>

RatLeq(a, b) == a[1] * b[2] <= b[1] * a[2]

-----------------------------------------------------------------------------
(* Proportional Segmenter: FunASREngine._simple_segment_by_punctuation.    *)

\* faulty variant of re_split (C2 must tell it apart): splits on every
\* punctuation mark of the Smart Segmenter, not on the terminators only
RECURSIVE re_split_any_punctuation(_, _)
re_split_any_punctuation(s, cur) ==
    IF s = <<>> THEN <<cur>>
    ELSE IF Head(s) \in Range(punctuation)
         THEN <<cur>> \o re_split_any_punctuation(Tail(s), <<>>)
         ELSE re_split_any_punctuation(Tail(s), Append(cur, Head(s)))

\* re.split(r'[...]', s): the pieces between terminator characters, empty
\* pieces included; cur is the piece being read
RECURSIVE re_split(_, _)
re_split(s, cur) ==
    IF s = <<>> THEN <<cur>>
    ELSE IF Head(s) \in Terminators
         THEN <<cur>> \o re_split(Tail(s), <<>>)
         ELSE re_split(Tail(s), Append(cur, Head(s)))

\* faulty variant of strip_nonblank (C8 must tell it apart): the filter
\* if s.strip()  is lost
strip_keep_blank(ps) == [i \in 1..Len(ps) |-> strip(ps[i])]

\* [s.strip() for s in sentences if s.strip()]
RECURSIVE strip_nonblank(_)
strip_nonblank(ps) ==
    IF ps = <<>> THEN <<>>
    ELSE IF strip(Head(ps)) # <<>>
         THEN <<strip(Head(ps))>> \o strip_nonblank(Tail(ps))
         ELSE strip_nonblank(Tail(ps))

\* faulty variant of simple_segment_by_punctuation (C1 must tell it apart):
\* the index is counted from 1
simple_segment_from_one(t, total) ==
    LET sentences == strip_nonblank(re_split(t, <<>>))
        n == Len(sentences)
    IN  [k \in 1..n |->
            [start |-> Rat(k * total, n),
             end   |-> Rat((k + 1) * total, n),
             text  |-> sentences[k]]]

\* lines 345-358; duration_per_sentence = total / n is kept exact, so
\* i * duration_per_sentence = (i * total) / n
simple_segment_by_punctuation(t, total) ==
    LET sentences == strip_nonblank(re_split(t, <<>>))  \* lines 342-343
        n == Len(sentences)
    IN  [k \in 1..n |->
            [start |-> Rat((k - 1) * total, n),
             end   |-> Rat(k * total, n),
             text  |-> sentences[k]]]

-----------------------------------------------------------------------------
(* Smart Segmenter: FunASREngine._smart_segment_with_punctuation.          *)

DefaultTextLength == 8    \* text_length=8 (line 245)
FinalThreshold == 10      \* len(words) < 10 (line 278)
UpperBound == 10          \* punctuation_index > 10 (line 286)
LowerBound == 2           \* punctuation_index <= 2 (line 286)
FallbackDuration == 300   \* _simple_segment_by_punctuation(text, 300) (line 333)

Min(a, b) == IF a <= b THEN a ELSE b

\* find_punctuation_indices (lines 262-267): the 0-based index of the first
\* unit that is a substring of the punctuation string, -1 if there is none
find_punctuation_indices(word_list) ==
    LET hits == {i \in 1..Len(word_list) : IsSubstring(word_list[i], punctuation)}
    IN  IF hits = {} THEN -1
        ELSE (CHOOSE i \in hits : \A j \in hits : i <= j) - 1

\* remove_sentence_punctuation (lines 269-273): every punctuation character
\* replaced by a space, then strip()
remove_sentence_punctuation(sentence) ==
    strip([i \in 1..Len(sentence) |->
              IF sentence[i] \in Range(punctuation) THEN " " ELSE sentence[i]])

\* faulty variants of the slices (C4 and C5 must tell them apart): a slice
\* that ends one unit early, a slice that starts one unit late
TakeOneShort(ws, k) == SubSeq(ws, 1, Min(k, Len(ws)) - 1)
DropOneMore(ws, k) == SubSeq(ws, Min(k, Len(ws)) + 2, Len(ws))

\* faulty variant of Drop (C24 must tell it apart): the remaining list is
\* not shortened
DropNothing(ws, k) == ws

\* Python slices ws[:k] and ws[k:] for k >= 0
Take(ws, k) == SubSeq(ws, 1, Min(k, Len(ws)))
Drop(ws, k) == SubSeq(ws, Min(k, Len(ws)) + 1, Len(ws))

\* faulty variant of cut_length (C3 must tell it apart): the branch for
\* fewer than 10 units (line 278) is lost
cut_length_always_window(ws, tl) ==
    LET punctuation_index == find_punctuation_indices(ws)
    IN  IF punctuation_index > UpperBound \/ punctuation_index <= LowerBound
        THEN Min(tl, Len(ws))
        ELSE punctuation_index + 1

\* faulty variant of cut_length (C20 must tell it apart): the cut is made
\* before the punctuation unit
cut_length_before_punctuation(ws, tl) ==
    IF Len(ws) < FinalThreshold THEN Len(ws)
    ELSE LET punctuation_index == find_punctuation_indices(ws)
         IN  IF punctuation_index > UpperBound \/ punctuation_index <= LowerBound
             THEN Min(tl, Len(ws))
             ELSE punctuation_index

\* lines 278-293: the number of units the next segment takes from ws
cut_length(ws, tl) ==
    IF Len(ws) < FinalThreshold THEN Len(ws)
    ELSE LET punctuation_index == find_punctuation_indices(ws)
         IN  IF punctuation_index > UpperBound \/ punctuation_index <= LowerBound
             THEN Min(tl, Len(ws))
             ELSE punctuation_index + 1

\* line 297: len(segment_text.replace(' ', ''))
segment_length_of(segment_text) ==
    Cardinality({i \in 1..Len(segment_text) : segment_text[i] # " "})

\* faulty variant of estimated_word_count_of (C25 must tell it apart): the
\* count is not limited to the entries left
estimated_word_count_unclamped(segment_text, wi, wt) ==
    segment_length_of(segment_text)

\* line 300
estimated_word_count_of(segment_text, wi, wt) ==
    Min(segment_length_of(segment_text), Len(wt) - wi)

\* line 310: isinstance(start_timestamp, list) and len(start_timestamp) >= 2
\* (every entry of the model is a list)
well_formed(ts) == Len(ts) >= 2

\* faulty variant of segment_times (C21 must tell it apart): the end range
\* is read one entry after the last entry of the segment
segment_times_end_one_late(wi, est, wt) ==
    LET start_timestamp == wt[wi + 1]
        end_index == Min(wi + est, Len(wt) - 1)
        end_timestamp == wt[end_index + 1]
    IN  IF well_formed(start_timestamp)
        THEN IF Len(end_timestamp) >= 2
             THEN [kind |-> "real",
                   start |-> Rat(start_timestamp[1], 1000),
                   end |-> Rat(end_timestamp[2], 1000)]
             ELSE [kind |-> "error"]
        ELSE [kind |-> "synthetic",
              start |-> Rat(wi, 2),
              end |-> Rat(wi + est, 2)]

\* lines 305-316 for cursor wi (0-based) and count est >= 1.  The end range
\* is read as end_timestamp[1] without a check: a well-formed start with a
\* one-element end range raises IndexError, reported as "error".
segment_times(wi, est, wt) ==
    LET start_timestamp == wt[wi + 1]
        end_index == Min(wi + est - 1, Len(wt) - 1)
        end_timestamp == wt[end_index + 1]
    IN  IF well_formed(start_timestamp)
        THEN IF Len(end_timestamp) >= 2
             THEN [kind |-> "real",
                   start |-> Rat(start_timestamp[1], 1000),
                   end |-> Rat(end_timestamp[2], 1000)]
             ELSE [kind |-> "error"]
        ELSE [kind |-> "synthetic",
              start |-> Rat(wi, 2),
              end |-> Rat(wi + est, 2)]

\* line 277
loop_condition(ws, wi, wt) == Len(ws) > 0 /\ wi < Len(wt)

-----------------------------------------------------------------------------
(* Inputs.                                                                 *)

\* characters of the texts given to the Proportional Segmenter: a letter,
\* the space, two terminators and one punctuation mark that is no terminator
TextAlphabet == {"A", " ", "fw.", "!", "fw,"}

SeqsUpTo(S, n) == UNION {[1..k -> S] : k \in 0..n}

Durations == {0, 9}

NoSmartState ==
    /\ iterations = 0
    /\ tokens = <<>>
    /\ word_timestamps = <<>>
    /\ text_length = DefaultTextLength
    /\ words = <<>>
    /\ word_index = 0
    /\ segments = <<>>
    /\ fellBack = FALSE

\* the order in which the segmenters insert the keys (lines 321-325, 352-356)
SegmenterKeyOrder == <<"start", "end", "text">>

NoEngineState ==
    /\ audio_read = FALSE
    /\ audio_kind = "path"
    /\ temp_file = "None"
    /\ files = {}
    /\ model_result = "None"
    /\ use_smart_segmentation = TRUE
    /\ actual_duration = 0
    /\ calls = <<>>
    /\ swallowed = FALSE

NoNodeState ==
    /\ NoEngineState
    /\ format = "srt"
    /\ error = <<>>
    /\ key_order = SegmenterKeyOrder
    /\ history = <<>>
    /\ seconds = <<0, 1>>
    /\ whisper_model = FALSE
    /\ funasr_model = FALSE
    /\ native = <<>>
    /\ engine_calls = <<>>
    /\ segmenter_calls = <<>>

NoSerState ==
    /\ ser_segments = <<>>
    /\ output = <<>>
    /\ NoNodeState

-----------------------------------------------------------------------------
(* One call of the Proportional Segmenter on any short text.               *)

InitSimple ==
    /\ pc = "simple_call"
    /\ text \in SeqsUpTo(TextAlphabet, MaxTextLen)
    /\ total_duration \in Durations
    /\ result = <<>>
    /\ raised = FALSE
    /\ NoSmartState
    /\ NoSerState

SimpleCall ==
    /\ pc = "simple_call"
    /\ result' = simple_segment_by_punctuation(text, total_duration)
    /\ pc' = "simple_done"
    /\ UNCHANGED <<inVars, words, word_index, segments, raised, fellBack>>
    /\ UNCHANGED <<serVars, iterations>>


-----------------------------------------------------------------------------
(* One call of the Smart Segmenter, its wholesale fallback included.       *)

\* the units of the tokenized texts: a one-character word, a two-character
\* word, a second letter, the space, a punctuation mark that is no
\* terminator and a terminator
Fillers == {<<"A">>, <<"A", "B">>, <<" ">>}
Specials == {<<"B">>, <<" ">>, <<"fw,">>, <<"fw.">>}

\* n copies of the word w, the unit at position p (if any) replaced by k
UnitList(n, w, p, k) == [i \in 1..n |-> IF i = p THEN k ELSE w]

UnitLists ==
    {UnitList(n, w, p, k) :
        n \in 0..MaxUnits, w \in Fillers, p \in 0..MaxUnits, k \in Specials}

\* m ranges of 100 ms each after 3 s of silence, ascending or (desc)
\* descending, the entry at position bad (if any) malformed: a one-element
\* list
TimeList(m, bad, desc) ==
    [i \in 1..m |->
        LET s == 3000 + (IF desc THEN m - i ELSE i - 1) * 100
        IN  IF i = bad THEN <<s>> ELSE <<s, s + 100>>]

TimeLists ==
    {TimeList(m, bad, FALSE) : m \in 0..MaxTimes, bad \in 0..MaxTimes}
        \cup {TimeList(m, 0, TRUE) : m \in 0..MaxTimes}

InitSmart ==
    /\ pc = "smart_call"
    /\ iterations = 0
    /\ tokens \in UnitLists
    /\ text = join(tokens)
    /\ word_timestamps \in TimeLists
    /\ text_length = DefaultTextLength
    /\ total_duration = 9
    /\ words = <<>>
    /\ word_index = 0
    /\ segments = <<>>
    /\ result = <<>>
    /\ raised = FALSE
    /\ fellBack = FALSE
    /\ NoSerState

\* faulty variant of Fallback (C9 must tell it apart): the except branch
\* returns the segments collected so far
FallbackKeepsSegments ==
    /\ result' = segments
    /\ fellBack' = TRUE
    /\ pc' = "smart_done"

\* lines 331-333: any exception inside the try block is caught and the
\* Proportional Segmenter's result for the whole text is returned
Fallback ==
    /\ result' = simple_segment_by_punctuation(text, FallbackDuration)
    /\ fellBack' = TRUE
    /\ pc' = "smart_done"

\* lines 250-275: the imports, the tokenization and the loop's set-up; the
\* import of jieba fails where the package is not installed
SmartEnter ==
    /\ pc = "smart_call"
    /\ \/ /\ words' = tokens
          /\ segments' = <<>>
          /\ word_index' = 0
          /\ pc' = "loop"
          /\ UNCHANGED <<result, fellBack>>
       \/ /\ Fallback
          /\ UNCHANGED <<words, segments, word_index>>
    /\ UNCHANGED <<inVars, raised, serVars, iterations>>

\* lines 277-327: one iteration of the while loop; n, segment_text and est
\* are assigned once, as the loop body assigns them
SmartIterate ==
    /\ pc = "loop"
    /\ loop_condition(words, word_index, word_timestamps)
    /\ \E n \in {cut_length(words, text_length)} :
       \E segment_text \in {join(Take(words, n))} :          \* lines 295-296
       \E est \in {estimated_word_count_of(segment_text, word_index,
                                            word_timestamps)} :
       LET times == segment_times(word_index, est, word_timestamps)
           clean_text == remove_sentence_punctuation(segment_text)
       IN  \/ /\ est <= 0                       \* line 301: break, line 329
              /\ words' = Drop(words, n)
              /\ result' = segments
              /\ pc' = "smart_done"
              /\ UNCHANGED <<segments, word_index, fellBack>>
           \/ /\ est > 0
              /\ times.kind = "error"           \* line 312 raises
              /\ words' = Drop(words, n)
              /\ Fallback
              /\ UNCHANGED <<segments, word_index>>
           \/ /\ est > 0
              /\ times.kind # "error"
              /\ words' = Drop(words, n)
              /\ segments' =
                    IF clean_text # <<>>
                    THEN Append(segments, [start |-> times.start,
                                           end |-> times.end,
                                           text |-> clean_text])
                    ELSE segments
              /\ word_index' = word_index + est
              /\ UNCHANGED <<pc, result, fellBack>>
    /\ iterations' = iterations + 1
    /\ UNCHANGED <<inVars, raised, serVars>>

\* line 277 false, line 329: return segments
SmartReturn ==
    /\ pc = "loop"
    /\ ~loop_condition(words, word_index, word_timestamps)
    /\ result' = segments
    /\ pc' = "smart_done"
    /\ UNCHANGED <<inVars, words, word_index, segments, raised, fellBack, serVars,
                   iterations>>

-----------------------------------------------------------------------------
(* Spec: one call of either segmenter.                                     *)

Init == InitSmart \/ InitSimple

Next == SmartEnter \/ SmartIterate \/ SmartReturn \/ SimpleCall

Spec == Init /\ [][Next]_vars

-----------------------------------------------------------------------------
(* Serializer: AudioVideoToTimestampedText._to_vtt.                        *)

DigitChars == <<"0", "1", "2", "3", "4", "5", "6", "7", "8", "9">>

\* the decimal digits of n >= 0
RECURSIVE Decimal(_)
Decimal(n) ==
    IF n < 10 THEN <<DigitChars[n + 1]>>
    ELSE Append(Decimal(n \div 10), DigitChars[(n % 10) + 1])

\* f"{n:0{width}d}": zero-padded to at least width digits, never truncated
RECURSIVE ZeroPad(_, _)
ZeroPad(ds, width) == IF Len(ds) >= width THEN ds ELSE ZeroPad(<<"0">> \o ds, width)

\* faulty variant of Padded (C15 must tell it apart): the digits beyond the
\* width are cut off
PaddedToWidth(n, width) ==
    LET ds == ZeroPad(Decimal(n), width)
    IN  SubSeq(ds, Len(ds) - width + 1, Len(ds))

Padded(n, width) == ZeroPad(Decimal(n), width)

\* lines 203-207 on an exact time t = <<num, den>> >= 0: the four fields
time_fields(t) ==
    LET whole == t[1] \div t[2]                 \* floor(seconds)
        frac_num == t[1] % t[2]                 \* seconds - floor(seconds)
        rest == whole % 3600                    \* seconds %= 3600
    IN  [hours |-> whole \div 3600,
         minutes |-> rest \div 60,
         secs |-> rest % 60,                    \* int(seconds) after %= 60
         milliseconds |-> (frac_num * 1000) \div t[2]]

\* _format_time_vtt (lines 193-209): HH:MM:SS.mmm
format_time_vtt(t) ==
    LET f == time_fields(t)
    IN  Padded(f.hours, 2) \o <<":">> \o Padded(f.minutes, 2) \o <<":">>
            \o Padded(f.secs, 2) \o <<".">> \o Padded(f.milliseconds, 3)

\* "\n".join(lines)
RECURSIVE join_lines(_)
join_lines(lines) ==
    IF lines = <<>> THEN <<>>
    ELSE IF Len(lines) = 1 THEN Head(lines)
         ELSE Head(lines) \o <<"\n">> \o join_lines(Tail(lines))

Arrow == <<" ", "-", "-", ">", " ">>

\* lines 131-144: the three lines of each segment, in order
RECURSIVE vtt_entries(_)
vtt_entries(segs) ==
    IF segs = <<>> THEN <<>>
    ELSE <<format_time_vtt(Head(segs).start) \o Arrow
               \o format_time_vtt(Head(segs).end),
           strip(Head(segs).text),
           <<>>>> \o vtt_entries(Tail(segs))

\* line 129: vtt_lines = ["WEBVTT", ""]
vtt_header_lines == << <<"W", "E", "B", "V", "T", "T">>, <<>> >>

\* _to_vtt (lines 119-146)
to_vtt(segs) == join_lines(vtt_header_lines \o vtt_entries(segs))

-----------------------------------------------------------------------------
(* Serializer: _to_srt, _to_txt, json.dumps and the format dispatch of     *)
(* AudioVideoToTimestampedText.transcribe_with_timestamps (lines 68-87).   *)
(* A segment is a dict: a record whose domain is the set of its keys, so   *)
(* that a segment may lack a key; key_order is the order in which its      *)
(* producer inserted the keys, which json.dumps preserves.                 *)

\* _format_time_srt (lines 175-191): HH:MM:SS,mmm
format_time_srt(t) ==
    LET f == time_fields(t)
    IN  Padded(f.hours, 2) \o <<":">> \o Padded(f.minutes, 2) \o <<":">>
            \o Padded(f.secs, 2) \o <<",">> \o Padded(f.milliseconds, 3)

\* round(x) for the exact x = n / d >= 0: to the nearest integer, a tie to
\* the even one (the rounding of the format specification .3f)
round_half_even(n, d) ==
    LET q == n \div d
        r == n % d
    IN  IF 2 * r < d THEN q
        ELSE IF 2 * r > d THEN q + 1
        ELSE IF q % 2 = 0 THEN q ELSE q + 1

\* faulty variant of format_timestamp (C18 must tell it apart): without
\* milliseconds the seconds are rounded to the nearest whole second
format_timestamp_rounded(t, include_ms) ==
    LET whole == t[1] \div t[2]
        frac_num == t[1] % t[2]
        rest == whole % 3600
        nearest == round_half_even((rest % 60) * t[2] + frac_num, t[2])
    IN  Padded(whole \div 3600, 2) \o <<":">> \o Padded(rest \div 60, 2)
            \o <<":">> \o Padded(nearest, 2)

\* AudioVideoProcessor.format_timestamp (audio_video_processor.py, lines
\* 128-147): HH:MM:SS.mmm with the seconds rounded to three decimals when
\* include_ms, HH:MM:SS with the fraction dropped otherwise
format_timestamp(t, include_ms) ==
    LET whole == t[1] \div t[2]
        frac_num == t[1] % t[2]
        rest == whole % 3600
        hours == whole \div 3600
        minutes == rest \div 60
        secs == rest % 60
        thousandths == round_half_even((secs * t[2] + frac_num) * 1000, t[2])
    IN  IF include_ms
        THEN Padded(hours, 2) \o <<":">> \o Padded(minutes, 2) \o <<":">>
                 \o Padded(thousandths \div 1000, 2) \o <<".">>
                 \o Padded(thousandths % 1000, 3)
        ELSE Padded(hours, 2) \o <<":">> \o Padded(minutes, 2) \o <<":">>
                 \o Padded(secs, 2)

\* the keys a serializer reads from each segment, in the order of the reads
\* (lines 103-105, 133-135, 162-164)
RequiredKeys == <<"start", "end", "text">>

\* segment[key] for the first key the segment lacks: the KeyError raised,
\* <<>> if the segment has the three keys
missing_key(segment) ==
    LET lacking == SelectSeq(RequiredKeys, LAMBDA k : k \notin DOMAIN segment)
    IN  IF lacking = <<>> THEN <<>> ELSE <<"KeyError", Head(lacking)>>

\* the KeyError of the first segment that lacks a key, <<>> if there is none;
\* the loops of _to_srt, _to_vtt and _to_txt read the segments in order
RECURSIVE key_error(_)
key_error(segs) ==
    IF segs = <<>> THEN <<>>
    ELSE IF missing_key(Head(segs)) # <<>> THEN missing_key(Head(segs))
         ELSE key_error(Tail(segs))

\* lines 101-115: the four lines of each segment, i being enumerate's index
RECURSIVE srt_entries(_, _)
srt_entries(segs, i) ==
    IF segs = <<>> THEN <<>>
    ELSE <<Decimal(i + 1),
           format_time_srt(Head(segs).start) \o Arrow
               \o format_time_srt(Head(segs).end),
           strip(Head(segs).text),
           <<>>>> \o srt_entries(Tail(segs), i + 1)

\* faulty variant of to_srt (C13 must tell it apart): the blank line after
\* each segment is left out
to_srt_without_blank_lines(segs) ==
    join_lines(SelectSeq(srt_entries(segs, 0), LAMBDA line : line # <<>>))

\* _to_srt (lines 89-117) on segments that have the three keys
to_srt(segs) == join_lines(srt_entries(segs, 0))

\* line 171: "[{start_formatted} --> {end_formatted}] {text.strip()}"
txt_line(segment) ==
    <<"[">> \o format_timestamp(segment.start, FALSE) \o Arrow
        \o format_timestamp(segment.end, FALSE) \o <<"]", " ">>
        \o strip(segment.text)

\* _to_txt (lines 148-173) on segments that have the three keys
to_txt(segs) == join_lines([i \in 1..Len(segs) |-> txt_line(segs[i])])

\* separator.join(items)
RECURSIVE join_sep(_, _)
join_sep(separator, items) ==
    IF items = <<>> THEN <<>>
    ELSE IF Len(items) = 1 THEN Head(items)
         ELSE Head(items) \o separator \o join_sep(separator, Tail(items))

\* json.dumps of a str with ensure_ascii=False: quoted, with the quote, the
\* backslash and the newline escaped
RECURSIVE json_escape(_)
json_escape(str) ==
    IF str = <<>> THEN <<>>
    ELSE (CASE Head(str) = "\"" -> <<"\\", "\"">>
            [] Head(str) = "\\" -> <<"\\", "\\">>
            [] Head(str) = "\n" -> <<"\\", "n">>
            [] OTHER -> <<Head(str)>>) \o json_escape(Tail(str))

json_string(str) == <<"\"">> \o json_escape(str) \o <<"\"">>

\* the decimal digits of the fraction n / d < 1, d a divisor of a power of 10
RECURSIVE fraction_digits(_, _)
fraction_digits(n, d) ==
    IF n = 0 THEN <<>>
    ELSE <<DigitChars[((n * 10) \div d) + 1]>> \o fraction_digits((n * 10) % d, d)

\* json.dumps of a float (float.__repr__) for a time below 10^16 with a
\* finite decimal expansion: the integer part, a point, the fraction digits,
\* "0" for a whole number
json_number(t) ==
    LET digits == fraction_digits(t[1] % t[2], t[2])
    IN  Decimal(t[1] \div t[2]) \o <<".">>
            \o (IF digits = <<>> THEN <<"0">> ELSE digits)

\* the characters of a key
key_chars(k) ==
    CASE k = "start" -> <<"s", "t", "a", "r", "t">>
      [] k = "end" -> <<"e", "n", "d">>
      [] k = "text" -> <<"t", "e", "x", "t">>

\* one "key": value item of an object, at indentation level 2
json_item(segment, k) ==
    <<" ", " ", " ", " ">> \o json_string(key_chars(k)) \o <<":", " ">>
        \o (IF k = "text" THEN json_string(segment[k]) ELSE json_number(segment[k]))

\* json.dumps of one segment dict at indentation level 1, indent=2: the keys
\* the segment has, in insertion order
json_object(segment, order) ==
    LET keys == SelectSeq(order, LAMBDA k : k \in DOMAIN segment)
    IN  IF keys = <<>> THEN <<"{", "}">>
        ELSE <<"{", "\n">>
                 \o join_sep(<<",", "\n">>,
                             [i \in 1..Len(keys) |-> json_item(segment, keys[i])])
                 \o <<"\n", " ", " ", "}">>

\* json.dumps(segments, ensure_ascii=False, indent=2) (line 72)
to_json(segs, order) ==
    IF segs = <<>> THEN <<"[", "]">>
    ELSE <<"[", "\n">>
             \o join_sep(<<",", "\n">>,
                         [i \in 1..Len(segs) |->
                              <<" ", " ">> \o json_object(segs[i], order)])
             \o <<"\n", "]">>

\* faulty variant of unknown_format_branch (C11 must tell it apart): a
\* selector outside the four names is rejected
reject_unknown_format(segs) ==
    [raised |-> TRUE, error |-> <<"ValueError", "format">>, output |-> <<>>]

\* faulty variant of json_branch (C12 must tell it apart): an empty list is
\* rendered as an empty string
json_branch_blank_when_empty(segs, order) ==
    [raised |-> FALSE, error |-> <<>>,
     output |-> IF segs = <<>> THEN <<>> ELSE to_json(segs, order)]

\* lines 69-72
json_branch(segs, order) ==
    [raised |-> FALSE, error |-> <<>>, output |-> to_json(segs, order)]

\* the outcome of a serializer whose loop reads the three keys of every
\* segment: the KeyError propagates, or the string is returned
looped(segs, rendered) ==
    IF key_error(segs) # <<>>
    THEN [raised |-> TRUE, error |-> key_error(segs), output |-> <<>>]
    ELSE [raised |-> FALSE, error |-> <<>>, output |-> rendered]

\* lines 84-87: the else branch, taken for "txt" and for every other value
unknown_format_branch(segs) ==
    looped(segs, IF key_error(segs) = <<>> THEN to_txt(segs) ELSE <<>>)

\* lines 68-87: the format dispatch
serialize(fmt, segs, order) ==
    IF fmt = "json" THEN json_branch(segs, order)
    ELSE IF fmt = "srt"
         THEN looped(segs, IF key_error(segs) = <<>> THEN to_srt(segs) ELSE <<>>)
    ELSE IF fmt = "vtt"
         THEN looped(segs, IF key_error(segs) = <<>> THEN to_vtt(segs) ELSE <<>>)
    ELSE unknown_format_branch(segs)

-----------------------------------------------------------------------------
(* SpecSer: one call of the serializer on any short segment sequence.      *)

\* 0 s, 1.5 s, 3.25 s and 100 h 1.9996 s
SerTimes == {Rat(0, 1), Rat(3, 2), Rat(13, 4), Rat(900004999, 2500)}

SerTexts == {<<"H", "e", "l", "l", "o">>, <<" ", "A", " ">>}

SerSegments == [start : SerTimes, end : SerTimes, text : SerTexts]

InitSer ==
    /\ pc = "vtt_call"
    /\ ser_segments \in SeqsUpTo(SerSegments, MaxSegs)
    /\ output = <<>>
    /\ text = <<>>
    /\ total_duration = 0
    /\ result = <<>>
    /\ raised = FALSE
    /\ NoSmartState
    /\ NoNodeState

ToVtt ==
    /\ pc = "vtt_call"
    /\ output' = to_vtt(ser_segments)
    /\ pc' = "vtt_done"
    /\ UNCHANGED <<iterations, audio_read, engineVars>>
    /\ UNCHANGED <<inVars, words, word_index, segments, result, raised, fellBack,
                   ser_segments, nodeVars>>

NextSer == ToVtt

SpecSer == InitSer /\ [][NextSer]_vars

-----------------------------------------------------------------------------
(* SpecFormat: calls of the format dispatch (lines 68-87), one after the   *)
(* other on the same segment sequence, each with any selector; a segment   *)
(* may lack one of its keys.                                               *)

\* the four selectors of INPUT_TYPES (line 17) and one that is none of them
Formats == {"json", "srt", "vtt", "txt", "SRT"}

\* the order in which WhisperEngine inserts the keys (lines 133-137)
WhisperKeyOrder == <<"text", "start", "end">>

FormatTexts == {<<"H", "e", "l", "l", "o">>, <<" ", "A", " ">>}

\* segments with the three keys: 0 s to 100 h 1.9996 s, 1.5 s to 3.25 s
WholeSegments ==
    {[start |-> Rat(0, 1), end |-> Rat(900004999, 2500), text |-> t] :
         t \in FormatTexts}
    \cup {[start |-> Rat(3, 2), end |-> Rat(13, 4), text |-> t] : t \in FormatTexts}

\* segments that lack one key
LackingSegments ==
    {[end |-> Rat(13, 4), text |-> <<"A">>],
     [start |-> Rat(3, 2), text |-> <<"A">>],
     [start |-> Rat(3, 2), end |-> Rat(13, 4)]}

InitFormat ==
    /\ pc = "format_call"
    /\ ser_segments \in SeqsUpTo(WholeSegments \cup LackingSegments, MaxSegs)
    /\ key_order \in {SegmenterKeyOrder, WhisperKeyOrder}
    /\ output = <<>>
    /\ text = <<>>
    /\ total_duration = 0
    /\ result = <<>>
    /\ raised = FALSE
    /\ NoSmartState
    /\ format = "srt"
    /\ error = <<>>
    /\ history = <<>>
    /\ seconds = <<0, 1>>
    /\ whisper_model = FALSE
    /\ funasr_model = FALSE
    /\ native = <<>>
    /\ engine_calls = <<>>
    /\ segmenter_calls = <<>>
    /\ NoEngineState

\* the state a serializer call leaves behind, given its outcome
Serialized(fmt, outcome) ==
    /\ format' = fmt
    /\ output' = outcome.output
    /\ raised' = outcome.raised
    /\ error' = outcome.error
    /\ history' = Append(history, <<fmt, outcome>>)

\* faulty variant of Serialize (C17 must tell it apart): the texts of the
\* segments are trimmed in place
SerializeTrimmingInPlace ==
    /\ pc \in {"format_call", "format_done"}
    /\ Len(history) < MaxCalls
    /\ \E fmt \in Formats : Serialized(fmt, serialize(fmt, ser_segments, key_order))
    /\ ser_segments' =
           [i \in 1..Len(ser_segments) |->
                IF "text" \in DOMAIN ser_segments[i]
                THEN [ser_segments[i] EXCEPT !.text = strip(@)]
                ELSE ser_segments[i]]
    /\ pc' = "format_done"
    /\ UNCHANGED <<iterations, audio_read, engineVars>>
    /\ UNCHANGED <<inVars, words, word_index, segments, result, fellBack,
                   key_order, seconds, whisper_model, funasr_model, native,
                   engine_calls, segmenter_calls>>

\* lines 68-87 with any selector: no statement assigns to the segments
Serialize ==
    /\ pc \in {"format_call", "format_done"}
    /\ Len(history) < MaxCalls
    /\ \E fmt \in Formats : Serialized(fmt, serialize(fmt, ser_segments, key_order))
    /\ pc' = "format_done"
    /\ UNCHANGED <<iterations, audio_read, engineVars>>
    /\ UNCHANGED <<inVars, words, word_index, segments, result, fellBack,
                   ser_segments, key_order, seconds, whisper_model,
                   funasr_model, native, engine_calls, segmenter_calls>>

NextFormat == Serialize

SpecFormat == InitFormat /\ [][NextFormat]_vars

-----------------------------------------------------------------------------
(* SpecTime: calls of the three time formatters on one time, a multiple of *)
(* 0.4 ms.                                                                 *)

\* h hours, m minutes, s seconds and k / 2500 seconds; the fractions are
\* 0, 0.4 ms, 0.8 ms, 0.5 s and 0.9996 s
TimeInputs ==
    {Rat((h * 3600 + m * 60 + s) * 2500 + k, 2500) :
         h \in {0, 1, 100}, m \in {0, 59}, s \in {0, 1, 59},
         k \in {0, 1, 2, 1250, 2499}}

InitTime ==
    /\ pc = "time_call"
    /\ seconds \in TimeInputs
    /\ ser_segments = <<>>
    /\ output = <<>>
    /\ text = <<>>
    /\ total_duration = 0
    /\ result = <<>>
    /\ raised = FALSE
    /\ NoSmartState
    /\ format = "srt"
    /\ error = <<>>
    /\ key_order = SegmenterKeyOrder
    /\ history = <<>>
    /\ whisper_model = FALSE
    /\ funasr_model = FALSE
    /\ native = <<>>
    /\ engine_calls = <<>>
    /\ segmenter_calls = <<>>
    /\ NoEngineState

\* the state a formatter call leaves behind
Formatted(formatter, string) ==
    /\ output' = string
    /\ history' = Append(history, <<formatter, string>>)
    /\ pc' = "time_done"
    /\ UNCHANGED <<iterations, audio_read, engineVars>>
    /\ UNCHANGED <<inVars, words, word_index, segments, result, raised, fellBack,
                   ser_segments, format, error, key_order, seconds,
                   whisper_model, funasr_model, native, engine_calls,
                   segmenter_calls>>

FormatTimeSrt ==
    /\ pc \in {"time_call", "time_done"}
    /\ Len(history) < MaxCalls
    /\ Formatted("srt", format_time_srt(seconds))

FormatTimeVtt ==
    /\ pc \in {"time_call", "time_done"}
    /\ Len(history) < MaxCalls
    /\ Formatted("vtt", format_time_vtt(seconds))

FormatTimestamp ==
    /\ pc \in {"time_call", "time_done"}
    /\ Len(history) < MaxCalls
    /\ \E include_ms \in BOOLEAN :
           Formatted(IF include_ms THEN "timestamp_ms" ELSE "timestamp",
                     format_timestamp(seconds, include_ms))

NextTime == FormatTimeSrt \/ FormatTimeVtt \/ FormatTimestamp

SpecTime == InitTime /\ [][NextTime]_vars

-----------------------------------------------------------------------------
(* SpecNode: one execution of the node                                     *)
(* AudioVideoToTimestampedText.transcribe_with_timestamps (lines 32-87).   *)
(* The Whisper model returns any short list of native segments; the FunASR *)
(* engine is given a model whose result is a plain string (line 229 of     *)
(* funasr_engine.py), its dict results being the calls of Spec.            *)

\* result['segments'] of the Whisper model: dicts with more keys than three
NativeSegments ==
    {[id |-> 0, seek |-> 0, text |-> t, start |-> Rat(0, 1), end |-> Rat(3, 2)] :
         t \in {<<" ", "H", "i">>, <<"A", ".", "B">>}}
    \cup {[id |-> 1, seek |-> 0, text |-> t, start |-> Rat(3, 2), end |-> Rat(13, 4)] :
              t \in {<<" ", "H", "i">>, <<"A", ".", "B">>}}

\* the string result of the FunASR model
NodeTexts == {<<>>, <<"A", ".", "B">>, <<"A", "fw,", "B", "!">>}

InitNode ==
    /\ pc = "node_call"
    /\ whisper_model \in BOOLEAN
    /\ funasr_model \in BOOLEAN
    /\ format \in Formats
    /\ native \in SeqsUpTo(NativeSegments, MaxSegs)
    /\ text \in NodeTexts
    /\ total_duration = 9
    /\ ser_segments = <<>>
    /\ key_order = SegmenterKeyOrder
    /\ output = <<>>
    /\ result = <<>>
    /\ raised = FALSE
    /\ error = <<>>
    /\ history = <<>>
    /\ seconds = <<0, 1>>
    /\ engine_calls = <<>>
    /\ segmenter_calls = <<>>
    /\ NoSmartState
    /\ NoEngineState

\* lines 45-50: the check of the models, then the audio is read
NodeValidate ==
    /\ pc = "node_call"
    /\ audio_read' = (funasr_model \/ whisper_model)
    /\ IF ~funasr_model /\ ~whisper_model
       THEN /\ raised' = TRUE
            /\ error' = <<"ValueError", "model">>
            /\ pc' = "node_raised"
       ELSE /\ pc' = "node_engine"
            /\ UNCHANGED <<raised, error>>
    /\ UNCHANGED <<iterations, engineVars>>
    /\ UNCHANGED <<inVars, words, word_index, segments, result, fellBack,
                   ser_segments, output, format, key_order, history, seconds,
                   whisper_model, funasr_model, native, engine_calls,
                   segmenter_calls>>

\* faulty variant of whisper_segments (C19 must tell it apart): the texts
\* of the native segments are trimmed
whisper_segments_trimmed(native_segments) ==
    [i \in 1..Len(native_segments) |->
         [text |-> strip(native_segments[i].text),
          start |-> native_segments[i].start,
          end |-> native_segments[i].end]]

\* WhisperEngine.transcribe_with_timestamps, lines 130-140: text, start and
\* end of every native segment, copied
whisper_segments(native_segments) ==
    [i \in 1..Len(native_segments) |->
         [text |-> native_segments[i].text,
          start |-> native_segments[i].start,
          end |-> native_segments[i].end]]

\* lines 56-61: the Whisper engine is called; the model fails (the engine
\* raises RuntimeError, lines 142-143) or its segments are copied
NodeWhisper ==
    /\ pc = "node_engine"
    /\ whisper_model
    /\ engine_calls' = Append(engine_calls, "whisper")
    /\ \/ /\ ser_segments' = whisper_segments(native)
          /\ key_order' = WhisperKeyOrder
          /\ pc' = "node_format"
          /\ UNCHANGED <<raised, error>>
       \/ /\ raised' = TRUE
          /\ error' = <<"RuntimeError", "whisper">>
          /\ pc' = "node_raised"
          /\ UNCHANGED <<ser_segments, key_order>>
    /\ UNCHANGED <<iterations, audio_read, engineVars>>
    /\ UNCHANGED <<inVars, words, word_index, segments, result, fellBack,
                   output, format, history, seconds, whisper_model,
                   funasr_model, native, segmenter_calls>>

\* lines 64-66: the FunASR engine is called; the model fails (the engine
\* raises RuntimeError, funasr_engine.py lines 234-236) or its string
\* result goes to the Proportional Segmenter (lines 229-230)
NodeFunASR ==
    /\ pc = "node_engine"
    /\ ~whisper_model
    /\ funasr_model
    /\ engine_calls' = Append(engine_calls, "funasr")
    /\ \/ /\ ser_segments' = simple_segment_by_punctuation(text, total_duration)
          /\ segmenter_calls' = Append(segmenter_calls, "simple")
          /\ key_order' = SegmenterKeyOrder
          /\ pc' = "node_format"
          /\ UNCHANGED <<raised, error>>
       \/ /\ raised' = TRUE
          /\ error' = <<"RuntimeError", "funasr">>
          /\ pc' = "node_raised"
          /\ UNCHANGED <<ser_segments, key_order, segmenter_calls>>
    /\ UNCHANGED <<iterations, audio_read, engineVars>>
    /\ UNCHANGED <<inVars, words, word_index, segments, result, fellBack,
                   output, format, history, seconds, whisper_model,
                   funasr_model, native>>

\* lines 68-87: the format dispatch on the engine's segments
NodeFormat ==
    /\ pc = "node_format"
    /\ Serialized(format, serialize(format, ser_segments, key_order))
    /\ pc' = IF serialize(format, ser_segments, key_order).raised
             THEN "node_raised" ELSE "node_done"
    /\ UNCHANGED <<iterations, audio_read, engineVars>>
    /\ UNCHANGED <<inVars, words, word_index, segments, result, fellBack,
                   ser_segments, key_order, seconds, whisper_model,
                   funasr_model, native, engine_calls, segmenter_calls>>

NextNode == NodeValidate \/ NodeWhisper \/ NodeFunASR \/ NodeFormat

SpecNode == InitNode /\ [][NextNode]_vars

-----------------------------------------------------------------------------
(* Vocabulary of the claims, stated without the operators of the model.    *)

SegText(segs) == [i \in 1..Len(segs) |-> segs[i].text]

IsSpace(c) == c = " "
IsTerminator(c) == c \in Terminators
IsPunctuation(c) == c \in Range(punctuation)
IsLetter(c) == ~IsSpace(c) /\ ~IsPunctuation(c)

Blank(s) == \A i \in 1..Len(s) : IsSpace(s[i])

\* s without its leading and trailing spaces
Trimmed(s) ==
    IF Blank(s) THEN <<>>
    ELSE LET solid == {i \in 1..Len(s) : ~IsSpace(s[i])}
             lo == CHOOSE i \in solid : \A j \in solid : i <= j
             hi == CHOOSE i \in solid : \A j \in solid : j <= i
         IN  SubSeq(s, lo, hi)

\* the characters of s that are neither spaces nor punctuation, in order
Letters(s) == SelectSeq(s, IsLetter)

NonSpaceCount(s) == Len(SelectSeq(s, LAMBDA c : ~IsSpace(c)))

\* the k-th smallest element of a finite set of integers
KthSmallest(S, k) == CHOOSE x \in S : Cardinality({y \in S : y < x}) = k - 1

\* the trimmed piece of t that starts after position c (0, or the position
\* of a terminator) and ends before the next terminator or the end of t
PieceAfter(t, c) ==
    LET stops == {j \in (c + 1)..Len(t) : IsTerminator(t[j])} \cup {Len(t) + 1}
        nxt == CHOOSE j \in stops : \A k \in stops : j <= k
    IN  Trimmed(SubSeq(t, c + 1, nxt - 1))

\* where the non-empty trimmed pieces of t start
PieceStarts(t) ==
    {c \in 0..Len(t) :
        /\ c = 0 \/ IsTerminator(t[c])
        /\ PieceAfter(t, c) # <<>>}

\* a call of the Proportional Segmenter, of the Smart Segmenter, has returned
SimpleDone == pc = "simple_done"
SmartDone == pc = "smart_done"

-----------------------------------------------------------------------------
(* C1.  Proportional Segmenter: a text that splits into N >= 1 non-empty   *)
(* trimmed pieces on the terminator set, with total duration D >= 0, gives *)
(* exactly N segments in piece order; segment i (0-indexed) has start      *)
(* i*D/N, end (i+1)*D/N and text piece i, so the first start is 0, the     *)
(* last end is D and each end equals the next start.  The text             *)
(* "A<fw.>A<!>A" with D = 9 gives [0,3,"A"], [3,6,"A"], [6,9,"A"].         *)

\* C1: N segments in piece order, segment i spanning [i*D/N, (i+1)*D/N]
C1_Proportional ==
    SimpleDone =>
        LET starts == PieceStarts(text)
            N == Cardinality(starts)
            D == total_duration
        IN  N >= 1 =>
              /\ Len(result) = N
              /\ \A i \in 0..(N - 1) :
                    /\ result[i + 1].start = Rat(i * D, N)
                    /\ result[i + 1].end = Rat((i + 1) * D, N)
                    /\ result[i + 1].text = PieceAfter(text, KthSmallest(starts, i + 1))
              /\ result[1].start = <<0, 1>>
              /\ result[N].end = <<D, 1>>
              /\ \A i \in 1..(N - 1) : result[i].end = result[i + 1].start

\* C1 witness: three pieces, D = 9
C1_Witness ==
    /\ SimpleDone
    /\ text = <<"A", "fw.", "A", "!", "A">>
    /\ total_duration = 9
    /\ result = << [start |-> <<0, 1>>, end |-> <<3, 1>>, text |-> <<"A">>],
                   [start |-> <<3, 1>>, end |-> <<6, 1>>, text |-> <<"A">>],
                   [start |-> <<6, 1>>, end |-> <<9, 1>>, text |-> <<"A">>] >>

-----------------------------------------------------------------------------
(* C2.  Proportional Segmenter on a text with no terminator character.     *)
(* As claimed: the result is always empty.  As the code behaves: the       *)
(* result is empty only if the text is blank; a non-blank text is one      *)
(* piece and gives exactly one segment [0, D, trimmed text].               *)

NoTerminator(t) == \A i \in 1..Len(t) : ~IsTerminator(t[i])

\* C2 as claimed: no terminator, so no segment
C2_Original == SimpleDone /\ NoTerminator(text) => result = <<>>

\* C2 as amended: no terminator, so no segment for a blank text and one
\* segment [0, D, trimmed text] otherwise
C2_Amended ==
    SimpleDone /\ NoTerminator(text) =>
        IF Blank(text) THEN result = <<>>
        ELSE result = << [start |-> <<0, 1>>,
                          end |-> <<total_duration, 1>>,
                          text |-> Trimmed(text)] >>

\* C2 witness: a non-blank text with punctuation that is no terminator
C2_Witness ==
    /\ SimpleDone
    /\ text = <<" ", "A", "fw,", "A">>
    /\ total_duration = 9
    /\ Len(result) = 1

-----------------------------------------------------------------------------
(* C3.  Smart Segmenter with fewer than 10 remaining units.                *)
(* As claimed: whenever the loop is entered with 0 < len(units) < 10,      *)
(* exactly one further segment is appended and it holds every remaining    *)
(* unit.  As the code behaves: that iteration takes every remaining unit   *)
(* and is the last one, and it appends exactly one segment, whose text is  *)
(* the punctuation-stripped join of all of them, unless                    *)
(*   - the join has no non-space character: the loop is left (line 302);   *)
(*   - the start range is well-formed and the end range is not: the error  *)
(*     is caught and the fallback result returned (line 333);              *)
(*   - the join is blank once its punctuation is stripped: nothing is      *)
(*     appended (line 320).                                                *)

\* strip_punctuation of the specification: each punctuation character
\* replaced by a space, then trimmed
StripPunctuation(s) ==
    Trimmed([i \in 1..Len(s) |-> IF IsPunctuation(s[i]) THEN " " ELSE s[i]])

LoopEnteredWithFew ==
    /\ pc = "loop"
    /\ Len(words) > 0
    /\ word_index < Len(word_timestamps)
    /\ Len(words) < 10

\* C3 as claimed: entered with fewer than 10 units, the iteration appends
\* exactly one segment, which holds every remaining unit
C3_Original ==
    [][LoopEnteredWithFew =>
          /\ Len(segments') = Len(segments) + 1
          /\ segments'[Len(segments')].text = StripPunctuation(join(words))]_vars

\* C3 as amended: entered with fewer than 10 units, the iteration takes all
\* of them and appends one segment unless it breaks, raises or finds the
\* stripped text empty
C3_Amended ==
    [][LoopEnteredWithFew =>
          LET all_text == join(words)
              count == Min(NonSpaceCount(all_text), Len(word_timestamps) - word_index)
              start_range == word_timestamps[word_index + 1]
              end_range == word_timestamps[word_index + count]
          IN  /\ words' = <<>>
              /\ IF count = 0
                 THEN pc' = "smart_done" /\ ~fellBack' /\ result' = segments
                 ELSE IF Len(start_range) >= 2 /\ Len(end_range) < 2
                 THEN pc' = "smart_done" /\ fellBack'
                 ELSE IF StripPunctuation(all_text) = <<>>
                 THEN pc' = "loop" /\ segments' = segments
                 ELSE /\ pc' = "loop"
                      /\ Len(segments') = Len(segments) + 1
                      /\ SubSeq(segments', 1, Len(segments)) = segments
                      /\ segments'[Len(segments')].text = StripPunctuation(all_text)]_vars

\* C3 witness: a text of at least 10 units whose last units made the second,
\* final segment
C3_Witness ==
    /\ SmartDone
    /\ ~fellBack
    /\ Len(tokens) >= 10
    /\ words = <<>>
    /\ Len(result) = 2
    /\ result[2].text = StripPunctuation(join(SubSeq(tokens, 9, Len(tokens))))

-----------------------------------------------------------------------------
(* C4.  Smart Segmenter with a malformed (one-element) range in            *)
(* token_times.  As claimed: nothing is raised and the texts of the        *)
(* returned segments cover the full text, wherever the malformed entry is  *)
(* read (as a start range or as an end range).  As the code behaves: this  *)
(* holds when token_times has at least as many entries as the text has     *)
(* non-space characters and no 8 consecutive units are blank; otherwise    *)
(* the units left when the cursor reaches the end of token_times, or when  *)
(* a window of units has no non-space character, are dropped.              *)

HasMalformed(wt) == \E i \in 1..Len(wt) : Len(wt[i]) < 2

\* every letter of the text appears in the segments' texts, in order
CoversText(segs, t) == Letters(join(SegText(segs))) = Letters(t)

EnoughTimes == Len(word_timestamps) >= NonSpaceCount(text)

\* no 8 consecutive units (the fixed window) are all spaces
NoBlankWindow(units) ==
    \A i \in 1..(Len(units) - 7) : \E j \in i..(i + 7) : ~Blank(units[j])

\* C4 as claimed: with a malformed entry anywhere, nothing is raised and
\* the segments cover the text
C4_Original ==
    SmartDone /\ HasMalformed(word_timestamps) =>
        ~raised /\ CoversText(result, text)

\* C4 as amended: the same, given enough entries and no blank window
C4_Amended ==
    SmartDone /\ HasMalformed(word_timestamps) /\ EnoughTimes /\ NoBlankWindow(tokens) =>
        ~raised /\ CoversText(result, text)

\* C4 witness: the first segment has real times, the second one read the malformed entry
\* as its start range and has the synthetic start 4 * 0.5
C4_Witness ==
    /\ SmartDone
    /\ ~fellBack
    /\ HasMalformed(word_timestamps)
    /\ EnoughTimes
    /\ Len(result) = 2
    /\ result[1].start = <<3, 1>>
    /\ result[2].start = <<2, 1>>
    /\ CoversText(result, text)

-----------------------------------------------------------------------------
(* C5.  Round trip.  As claimed: whenever len(token_times) equals the      *)
(* number of units, the concatenated segment texts reproduce the           *)
(* punctuation-stripped text (its characters that are neither punctuation  *)
(* nor spaces, in order), no trailing unit being dropped.  As the code     *)
(* behaves: the cursor advances by characters, not by units, so this       *)
(* holds when len(token_times) is at least the number of non-space         *)
(* characters of the text and no 8 consecutive units are blank.            *)

\* C5 as claimed: len(token_times) = number of units gives the round trip
C5_Original ==
    SmartDone /\ Len(word_timestamps) = Len(tokens) => CoversText(result, text)

\* C5 as amended: len(token_times) >= number of non-space characters and
\* no blank window give the round trip
C5_Amended ==
    SmartDone /\ EnoughTimes /\ NoBlankWindow(tokens) => CoversText(result, text)

\* C5 witness: ten one-character units, ten ranges, two segments
C5_Witness ==
    /\ SmartDone
    /\ ~fellBack
    /\ Len(tokens) = 10
    /\ Len(word_timestamps) = 10
    /\ \A i \in 1..Len(tokens) : Len(tokens[i]) = 1
    /\ Len(result) = 2
    /\ Letters(text) # <<>>
    /\ CoversText(result, text)

-----------------------------------------------------------------------------
(* C6.  Every segment of either segmenter has start >= 0 and end >= start, *)
(* for the Smart Segmenter on any token_times whose entries are            *)
(* individually well-formed (0 <= start_ms <= end_ms), monotone across     *)
(* entries or not.  The code emits end < start for a list that is not      *)
(* monotone.                                                               *)

Done == SmartDone \/ SimpleDone

EntriesWellFormed(wt) ==
    \A i \in 1..Len(wt) : Len(wt[i]) = 2 /\ 0 <= wt[i][1] /\ wt[i][1] <= wt[i][2]

\* C6 as claimed: start >= 0 and end >= start for every segment
C6_Claim ==
    Done /\ EntriesWellFormed(word_timestamps) =>
        \A i \in 1..Len(result) :
            /\ RatLeq(<<0, 1>>, result[i].start)
            /\ RatLeq(result[i].start, result[i].end)

-----------------------------------------------------------------------------
(* C7.  Every segment sequence of either segmenter is ordered by           *)
(* non-decreasing start, for the Smart Segmenter on any token_times whose  *)
(* well-formed entries have non-decreasing times, malformed entries        *)
(* (synthetic times cursor * 0.5) mixed in.  The code emits a synthetic    *)
(* start below an earlier real start.                                      *)

WellFormedAscending(wt) ==
    \A i, j \in 1..Len(wt) :
        i < j /\ Len(wt[i]) >= 2 /\ Len(wt[j]) >= 2 =>
            /\ wt[i][1] <= wt[i][2]
            /\ wt[i][1] <= wt[j][1]
            /\ wt[i][2] <= wt[j][2]

\* C7 as claimed: starts are non-decreasing along the result
C7_Claim ==
    Done /\ WellFormedAscending(word_timestamps) =>
        \A i \in 1..(Len(result) - 1) : RatLeq(result[i].start, result[i + 1].start)

-----------------------------------------------------------------------------
(* C8.  No segment of either segmenter has a text that is empty after      *)
(* trimming: the Smart Segmenter appends a segment only if its stripped    *)
(* text is non-empty, the Proportional Segmenter drops every blank piece,  *)
(* and the same holds for the result of the wholesale fallback.            *)

\* C8: no appended and no returned segment has a blank text
C8_NoBlankText ==
    /\ \A i \in 1..Len(segments) : ~Blank(segments[i].text)
    /\ Done => \A i \in 1..Len(result) : ~Blank(result[i].text)

\* C8 witness: a piece of spaces before the first terminator was dropped and the piece
\* after it kept
C8_Witness ==
    /\ SimpleDone
    /\ Len(text) >= 3
    /\ IsSpace(text[1])
    /\ IsTerminator(text[2])
    /\ PieceAfter(text, 0) = <<>>
    /\ Len(result) = 1
    /\ result[1].text = PieceAfter(text, 2)

-----------------------------------------------------------------------------
(* C9.  Failure policy of the Smart Segmenter: an internal error (the      *)
(* tokenizer cannot be imported, an entry of token_times has an            *)
(* unexpected shape) never reaches the caller; the value returned is       *)
(* exactly the Proportional Segmenter's result for the whole text with     *)
(* total duration 300, the segments appended before the error discarded.   *)

\* the Proportional Segmenter's result as the specification states it
ProportionalResult(t, D) ==
    LET starts == PieceStarts(t)
        N == Cardinality(starts)
    IN  [k \in 1..N |->
            [start |-> Rat((k - 1) * D, N),
             end |-> Rat(k * D, N),
             text |-> PieceAfter(t, KthSmallest(starts, k))]]

\* the next iteration reads a well-formed start range and a malformed end range
ErrorAhead ==
    /\ pc = "loop"
    /\ Len(words) > 0
    /\ word_index < Len(word_timestamps)
    /\ LET taken == join(SubSeq(words, 1, cut_length(words, text_length)))
           count == Min(NonSpaceCount(taken), Len(word_timestamps) - word_index)
       IN  /\ count > 0
           /\ Len(word_timestamps[word_index + 1]) >= 2
           /\ Len(word_timestamps[word_index + count]) < 2

\* C9: an error ahead leads to the fallback, and the fallback returns the
\* Proportional Segmenter's result for (text, 300) without raising
C9_FailurePolicy ==
    [][/\ ErrorAhead => fellBack'
       /\ fellBack' =>
            /\ pc' = "smart_done"
            /\ ~raised'
            /\ result' = ProportionalResult(text, 300)]_vars

\* C9 witness: the error came after a segment had been appended
C9_Witness ==
    /\ SmartDone
    /\ fellBack
    /\ Len(segments) >= 1
    /\ result = ProportionalResult(text, 300)
    /\ result # segments

-----------------------------------------------------------------------------
(* C10.  The VTT output begins with "WEBVTT\n\n", the header line and a    *)
(* blank line, for every segment count, zero included.  For zero segments  *)
(* the code returns "WEBVTT\n".                                            *)

StartsWith(s, prefix) ==
    Len(s) >= Len(prefix) /\ SubSeq(s, 1, Len(prefix)) = prefix

\* C10 as claimed: the output begins with WEBVTT, newline, newline
C10_Claim ==
    pc = "vtt_done" =>
        StartsWith(output, <<"W", "E", "B", "V", "T", "T", "\n", "\n">>)

-----------------------------------------------------------------------------
(* Vocabulary of the serializer claims.                                    *)

\* the lines of a string: its pieces between newlines
RECURSIVE LinesOf(_)
LinesOf(s) ==
    LET breaks == {i \in 1..Len(s) : s[i] = "\n"}
    IN  IF breaks = {} THEN <<s>>
        ELSE LET first == CHOOSE i \in breaks : \A j \in breaks : i <= j
             IN  <<SubSeq(s, 1, first - 1)>> \o LinesOf(SubSeq(s, first + 1, Len(s)))

IsDigit(c) == c \in {"0", "1", "2", "3", "4", "5", "6", "7", "8", "9"}

DigitOf(c) ==
    CASE c = "0" -> 0 [] c = "1" -> 1 [] c = "2" -> 2 [] c = "3" -> 3
      [] c = "4" -> 4 [] c = "5" -> 5 [] c = "6" -> 6 [] c = "7" -> 7
      [] c = "8" -> 8 [] c = "9" -> 9

AllDigits(ds) == \A i \in 1..Len(ds) : IsDigit(ds[i])

\* the number a sequence of decimal digits denotes
RECURSIVE NumberOf(_)
NumberOf(ds) ==
    IF ds = <<>> THEN 0
    ELSE 10 * NumberOf(SubSeq(ds, 1, Len(ds) - 1)) + DigitOf(ds[Len(ds)])

\* a segment with the three fields
Whole(segment) == {"start", "end", "text"} \subseteq DOMAIN segment

AllWhole(segs) == \A i \in 1..Len(segs) : Whole(segs[i])

\* the calls of the history made with a given selector
CallsWith(fmt) == {i \in 1..Len(history) : history[i][1] = fmt}

FormatDone == pc = "format_done"

\* the fields of a rendered SRT or VTT timestamp, read from its end
StampHours(s) == SubSeq(s, 1, Len(s) - 10)
StampMinutes(s) == SubSeq(s, Len(s) - 8, Len(s) - 7)
StampSeconds(s) == SubSeq(s, Len(s) - 5, Len(s) - 4)
StampSeparator(s) == s[Len(s) - 3]
StampMillis(s) == SubSeq(s, Len(s) - 2, Len(s))

StampShaped(s) ==
    /\ Len(s) >= 12
    /\ s[Len(s) - 9] = ":"
    /\ s[Len(s) - 6] = ":"
    /\ AllDigits(StampHours(s))
    /\ AllDigits(StampMinutes(s))
    /\ AllDigits(StampSeconds(s))
    /\ AllDigits(StampMillis(s))

\* the whole seconds of the exact time t, and its fraction's numerator
WholeSeconds(t) == t[1] \div t[2]
FractionNum(t) == t[1] % t[2]

\* m is a nearest integer to the exact n / d
Nearest(m, n, d) == 2 * (m * d - n) <= d /\ 2 * (n - m * d) <= d

\* the calls of the two formatters with milliseconds
StampCalls == {i \in 1..Len(history) : history[i][1] \in {"srt", "vtt"}}

-----------------------------------------------------------------------------
(* C11.  Format dispatch of the node: "json", "srt" and "vtt" select their *)
(* serializations and every other selector, "txt" or not, the txt one; an  *)
(* unrecognised selector raises nothing.                                   *)

\* C11: the node's output is the serialization its selector names, the txt
\* one for any other selector, and the dispatch raises nothing
C11_FormatDispatch ==
    history # <<>> =>
        /\ pc = "node_done"
        /\ ~raised
        /\ output = (CASE format = "json" -> to_json(ser_segments, key_order)
                       [] format = "srt" -> to_srt(ser_segments)
                       [] format = "vtt" -> to_vtt(ser_segments)
                       [] OTHER -> to_txt(ser_segments))

\* C11 witness: the selector "SRT" is none of the four names; the Whisper
\* segment " Hi" from 0 s to 1.5 s is rendered as txt
C11_Witness ==
    /\ pc = "node_done"
    /\ format = "SRT"
    /\ whisper_model
    /\ Len(ser_segments) = 1
    /\ ~raised
    /\ output = <<"[", "0", "0", ":", "0", "0", ":", "0", "0", " ", "-", "-",
                ">", " ", "0", "0", ":", "0", "0", ":", "0", "1", "]", " ",
                "H", "i">>
    /\ output # to_srt(ser_segments)

-----------------------------------------------------------------------------
(* C12.  An empty segment sequence gives "[]" as json and the empty string *)
(* as srt and as txt; no format raises.                                    *)

\* C12: every call on an empty sequence returns, with "[]" for json and
\* the empty string for srt and txt
C12_EmptySequence ==
    (FormatDone /\ ser_segments = <<>>) =>
        \A i \in 1..Len(history) :
            /\ ~history[i][2].raised
            /\ history[i][1] = "json" => history[i][2].output = <<"[", "]">>
            /\ history[i][1] \in {"srt", "txt"} => history[i][2].output = <<>>

\* C12 witness: the empty sequence serialized as srt, then as json
C12_Witness ==
    /\ FormatDone
    /\ ser_segments = <<>>
    /\ Len(history) = 2
    /\ history[1][1] = "srt"
    /\ history[1][2].output = <<>>
    /\ history[2][1] = "json"
    /\ output = <<"[", "]">>

-----------------------------------------------------------------------------
(* C13.  SRT serialization of n segments is the newline-join of 4n lines:  *)
(* for segment i the decimal index i, the two timestamps around " --> ",   *)
(* the trimmed text and an empty line.  The timestamps are the ones of     *)
(* _format_time_srt, which C14 and C15 are about.                          *)

\* the 4n lines of the claim
SrtLines(segs) ==
    [j \in 1..(4 * Len(segs)) |->
         LET i == ((j - 1) \div 4) + 1
             kind == (j - 1) % 4
         IN  CASE kind = 0 -> Decimal(i)
               [] kind = 1 -> format_time_srt(segs[i].start)
                                  \o <<" ", "-", "-", ">", " ">>
                                  \o format_time_srt(segs[i].end)
               [] kind = 2 -> Trimmed(segs[i].text)
               [] OTHER -> <<>>]

\* the example of the claim
HelloSegment == [start |-> <<3, 2>>, end |-> <<13, 4>>, text |-> <<"H", "e", "l", "l", "o">>]

HelloSrt ==
    <<"1", "\n", "0", "0", ":", "0", "0", ":", "0", "1", ",", "5", "0",
      "0", " ", "-", "-", ">", " ", "0", "0", ":", "0", "0", ":", "0", "3",
      ",", "2", "5", "0", "\n", "H", "e", "l", "l", "o", "\n">>

\* C13: the srt output of segments with the three fields is the newline-join
\* of the 4n lines, and the example segment gives the example string
C13_Srt ==
    \A c \in CallsWith("srt") :
        AllWhole(ser_segments) =>
            LET out == history[c][2].output
                n == Len(ser_segments)
            IN  /\ ~history[c][2].raised
                /\ n = 0 => out = <<>>
                /\ n > 0 => /\ LinesOf(out) = SrtLines(ser_segments)
                            /\ Len(LinesOf(out)) = 4 * n
                            /\ \A i \in 1..n :
                                   NumberOf(LinesOf(out)[4 * i - 3]) = i
                /\ ser_segments = <<HelloSegment>> => out = HelloSrt

\* C13 witness: the example segment, then a second segment whose text is
\* trimmed, serialized as srt
C13_Witness ==
    /\ FormatDone
    /\ format = "srt"
    /\ Len(ser_segments) = 2
    /\ AllWhole(ser_segments)
    /\ ser_segments[1] = HelloSegment
    /\ ser_segments[2].text = <<" ", "A", " ">>
    /\ Len(LinesOf(output)) = 8
    /\ LinesOf(output)[5] = <<"2">>
    /\ LinesOf(output)[7] = <<"A">>
    /\ SubSeq(output, 1, Len(HelloSrt)) = HelloSrt

-----------------------------------------------------------------------------
(* C14.  The SRT and VTT timestamps of a non-negative time: hours, minutes *)
(* and seconds are the floors of the specification and the millisecond     *)
(* field is the fraction rounded to the nearest millisecond.  The code     *)
(* truncates the fraction (lines 189 and 207): 0.0008 s is rendered with   *)
(* the milliseconds 000, the nearest millisecond being 001.                *)

\* C14 as claimed: the four fields, the milliseconds rounded to nearest
C14_Claim ==
    \A c \in StampCalls :
        LET s == history[c][2]
            rest == WholeSeconds(seconds) % 3600
        IN  /\ StampShaped(s)
            /\ NumberOf(StampHours(s)) = WholeSeconds(seconds) \div 3600
            /\ NumberOf(StampMinutes(s)) = rest \div 60
            /\ NumberOf(StampSeconds(s)) = rest % 60
            /\ Nearest(NumberOf(StampMillis(s)),
                       FractionNum(seconds) * 1000, seconds[2])

-----------------------------------------------------------------------------
(* C15.  The fields of an SRT or VTT timestamp: at least two hour digits   *)
(* that denote floor(seconds / 3600), also beyond 99; minutes and seconds  *)
(* of two digits in 00..59; milliseconds of three digits in 000..999; the  *)
(* two renderings of a time differ in the separator only.                  *)

\* C15: the widths and ranges of the fields, the hours never truncated, and
\* SRT and VTT equal but for "," and "."
C15_Fields ==
    /\ \A c \in StampCalls :
           LET s == history[c][2]
           IN  /\ StampShaped(s)
               /\ Len(StampHours(s)) >= 2
               /\ NumberOf(StampHours(s)) = WholeSeconds(seconds) \div 3600
               /\ NumberOf(StampMinutes(s)) \in 0..59
               /\ NumberOf(StampSeconds(s)) \in 0..59
               /\ NumberOf(StampMillis(s)) \in 0..999
               /\ StampSeparator(s) = IF history[c][1] = "srt" THEN "," ELSE "."
    /\ \A c, d \in StampCalls :
           LET s == history[c][2]
               v == history[d][2]
           IN  /\ Len(s) = Len(v)
               /\ \A k \in 1..Len(s) : k # Len(s) - 3 => s[k] = v[k]

\* C15 witness: 100 h 59 min 59.9996 s rendered by both formatters
C15_Witness ==
    /\ pc = "time_done"
    /\ seconds = <<908999999, 2500>>
    /\ Len(history) = 2
    /\ history[1] = <<"srt", <<"1", "0", "0", ":", "5", "9", ":", "5", "9", ",", "9", "9", "9">>>>
    /\ history[2] = <<"vtt", <<"1", "0", "0", ":", "5", "9", ":", "5", "9", ".", "9", "9", "9">>>>

-----------------------------------------------------------------------------
(* C16.  A segment that lacks start, end or text makes every format fail:  *)
(* an error that names the missing field reaches the caller and no string  *)
(* is returned.  The json branch (lines 69-72) reads no field: json.dumps  *)
(* renders the keys the segment has and the string is returned.            *)

\* C16 as claimed: a call on a sequence with a lacking segment raises an
\* error naming a field the segment lacks, and returns nothing
C16_Claim ==
    \A c \in 1..Len(history) :
        (FormatDone /\ ~AllWhole(ser_segments)) =>
            /\ history[c][2].raised
            /\ history[c][2].output = <<>>
            /\ Len(history[c][2].error) = 2
            /\ \E i \in 1..Len(ser_segments) :
                   /\ history[c][2].error[2] \in {"start", "end", "text"}
                   /\ history[c][2].error[2] \notin DOMAIN ser_segments[i]

-----------------------------------------------------------------------------
(* C17.  Serialization is pure: a call leaves the segment sequence as it   *)
(* was, returns what every earlier call with the same selector returned,   *)
(* and returns what a first call returns.                                  *)

-----------------------------------------------------------------------------
(* C18.  txt serialization: one line per segment, in order,                *)
(* "[<start> --> <end>] <trimmed text>", the timestamps being the SRT ones *)
(* without ",mmm": the fraction is dropped, never rounded up.              *)

\* the SRT timestamp without its last four characters
TxtStamp(t) == SubSeq(format_time_srt(t), 1, Len(format_time_srt(t)) - 4)

\* the line of the claim
TxtLine(segment) ==
    <<"[">> \o TxtStamp(segment.start) \o <<" ", "-", "-", ">", " ">>
        \o TxtStamp(segment.end) \o <<"]", " ">> \o Trimmed(segment.text)

\* C18: the txt output has one line per segment, each of the form of the
\* claim, in input order
C18_Txt ==
    \A c \in CallsWith("txt") :
        AllWhole(ser_segments) =>
            LET out == history[c][2].output
                n == Len(ser_segments)
            IN  /\ ~history[c][2].raised
                /\ n = 0 => out = <<>>
                /\ n > 0 => /\ Len(LinesOf(out)) = n
                            /\ \A i \in 1..n :
                                   LinesOf(out)[i] = TxtLine(ser_segments[i])

\* C18 witness: 1.5 s to 3.25 s and 0 s to 100 h 1.9996 s as txt
C18_Witness ==
    /\ FormatDone
    /\ format = "txt"
    /\ Len(ser_segments) = 2
    /\ AllWhole(ser_segments)
    /\ LinesOf(output) =
           << <<"[", "0", "0", ":", "0", "0", ":", "0", "1", " ", "-", "-",
                ">", " ", "0", "0", ":", "0", "0", ":", "0", "3", "]", " ",
                "A">>,
              <<"[", "0", "0", ":", "0", "0", ":", "0", "0", " ", "-", "-",
                ">", " ", "1", "0", "0", ":", "0", "0", ":", "0", "1", "]",
                " ", "H", "e", "l", "l", "o">> >>

-----------------------------------------------------------------------------
(* C19.  With a Whisper model the node serializes the engine's segments as *)
(* they are: one per native segment, in order, text, start and end copied, *)
(* and no segmenter applied.                                               *)

\* C19: once the Whisper engine has returned, the segments handed to the
\* serializer are the native ones, field by field, and no segmenter ran
C19_WhisperBypass ==
    (whisper_model /\ pc \in {"node_format", "node_done"}) =>
        /\ engine_calls = <<"whisper">>
        /\ segmenter_calls = <<>>
        /\ Len(ser_segments) = Len(native)
        /\ \A i \in 1..Len(native) :
               /\ DOMAIN ser_segments[i] = {"text", "start", "end"}
               /\ ser_segments[i].text = native[i].text
               /\ ser_segments[i].start = native[i].start
               /\ ser_segments[i].end = native[i].end

\* C19 witness: both models supplied; the native text "A.B", which the
\* Proportional Segmenter would split, and " Hi", which trimming would
\* change, reach the serializer as they are
C19_Witness ==
    /\ pc = "node_done"
    /\ whisper_model
    /\ funasr_model
    /\ format = "json"
    /\ Len(native) = 2
    /\ ser_segments[1].text = <<"A", ".", "B">>
    /\ ser_segments[2].text = <<" ", "H", "i">>
    /\ output # <<>>

-----------------------------------------------------------------------------
(* C20.  The cut of the Smart Segmenter when at least 10 units remain:     *)
(* with p the 0-based index of the first punctuation unit, the segment is  *)
(* the first text_length units if there is no p, p <= 2 or p > 10, and the *)
(* units 0..p otherwise; the remaining list is the units after the cut.    *)

\* a unit that is a punctuation mark
PunctuationUnit(u) == Len(u) = 1 /\ IsPunctuation(u[1])

\* the 0-based index of the first punctuation unit, -1 if there is none
FirstPunctuation(ws) ==
    LET found == {i \in 1..Len(ws) : PunctuationUnit(ws[i])}
    IN  IF found = {} THEN -1
        ELSE (CHOOSE i \in found : \A j \in found : i <= j) - 1

\* the number of units the claim gives to the segment
ClaimedCut(ws) ==
    LET p == FirstPunctuation(ws)
    IN  IF p = -1 \/ p <= 2 \/ p > 10 THEN text_length ELSE p + 1

LoopEnteredWithMany ==
    /\ pc = "loop"
    /\ Len(words) >= 10
    /\ word_index < Len(word_timestamps)

\* C20: an iteration entered with at least 10 units takes the units of the
\* claimed cut and leaves exactly the units after it; the segment it
\* appends, and the advance of the cursor, are those of the units taken
C20_CutRule ==
    [][LoopEnteredWithMany =>
          LET k == ClaimedCut(words)
              taken == join(SubSeq(words, 1, k))
          IN  /\ words' = SubSeq(words, k + 1, Len(words))
              /\ Len(segments') > Len(segments) =>
                     /\ Len(segments') = Len(segments) + 1
                     /\ segments'[Len(segments')].text = StripPunctuation(taken)
              /\ pc' = "loop" =>
                     word_index' = word_index
                         + Min(NonSpaceCount(taken), Len(word_timestamps) - word_index)]_vars

\* C20 witness: 12 units with the comma at index 4: the first segment is
\* the units 0..4, the second one the seven units after the comma
C20_Witness ==
    /\ SmartDone
    /\ ~fellBack
    /\ Len(tokens) = 12
    /\ tokens[5] = <<"fw,">>
    /\ tokens[1] = <<"A">>
    /\ Len(result) = 2
    /\ result[1].text = <<"A", "A", "A", "A">>
    /\ result[2].text = <<"A", "A", "A", "A", "A", "A", "A">>

-----------------------------------------------------------------------------
(* Vocabulary of the claims about the timing of the Smart Segmenter.       *)

\* an iteration of the loop is about to run
LoopEntered ==
    /\ pc = "loop"
    /\ Len(words) > 0
    /\ word_index < Len(word_timestamps)

\* the joined text of the units an iteration took from the list
TakenText == join(SubSeq(words, 1, Len(words) - Len(words')))

\* the estimated count of the claims for a joined text
ClaimedCount(taken) ==
    Min(NonSpaceCount(taken), Len(word_timestamps) - word_index)

\* the exact time t equals ms milliseconds, or halves half-seconds
IsMillis(t, ms) == t[1] * 1000 = ms * t[2]
IsHalves(t, halves) == t[1] * 2 = halves * t[2]

AllRangesWellFormed == \A i \in 1..Len(word_timestamps) : Len(word_timestamps[i]) >= 2

\* the iteration appended exactly one segment, with the stripped text taken
AppendedOne(taken) ==
    /\ Len(segments') = Len(segments) + 1
    /\ SubSeq(segments', 1, Len(segments)) = segments
    /\ segments'[Len(segments')].text = StripPunctuation(taken)

-----------------------------------------------------------------------------
(* C21.  Timing with well-formed ranges: the estimated count is the        *)
(* smaller of the non-space character count of the segment text and the    *)
(* entries left; the start is the start of the range at the cursor and the *)
(* end the end of the range at cursor + count - 1, in seconds; the cursor  *)
(* advances by the count, also when the stripped text is empty and no      *)
(* segment is emitted.                                                     *)

\* C21: with well-formed ranges an iteration with a positive count emits
\* the times of the ranges at cursor and cursor + count - 1 and advances
\* the cursor by the count, emitted segment or not
C21_Timing ==
    [][(LoopEntered /\ AllRangesWellFormed) =>
          LET taken == TakenText
              count == ClaimedCount(taken)
              last == Min(word_index + count - 1, Len(word_timestamps) - 1)
          IN  IF count <= 0
              THEN pc' = "smart_done" /\ result' = segments
              ELSE /\ pc' = "loop"
                   /\ word_index' = word_index + count
                   /\ IF StripPunctuation(taken) = <<>>
                      THEN segments' = segments
                      ELSE /\ AppendedOne(taken)
                           /\ IsMillis(segments'[Len(segments')].start,
                                       word_timestamps[word_index + 1][1])
                           /\ IsMillis(segments'[Len(segments')].end,
                                       word_timestamps[last + 1][2])]_vars

\* C21 witness: 12 units, the comma at index 4, 10 ranges of 100 ms from
\* 3 s on: [3.0, 3.5] for the first five characters, [3.5, 4.0] for the rest
C21_Witness ==
    /\ SmartDone
    /\ ~fellBack
    /\ Len(tokens) = 12
    /\ tokens[5] = <<"fw,">>
    /\ tokens[1] = <<"A">>
    /\ Len(word_timestamps) = 10
    /\ AllRangesWellFormed
    /\ word_timestamps[1] = <<3000, 3100>>
    /\ word_index = 10
    /\ Len(result) = 2
    /\ result[1].start = <<3, 1>> /\ result[1].end = <<7, 2>>
    /\ result[2].start = <<7, 2>> /\ result[2].end = <<4, 1>>

-----------------------------------------------------------------------------
(* C22.  Synthetic timing: if the start range or the end range of a        *)
(* segment is malformed, the segment is emitted with start = cursor * 0.5  *)
(* and end = (cursor + count) * 0.5 and the loop goes on, the segments     *)
(* emitted before being kept.  The code tests the start range only (line   *)
(* 310): with a well-formed start and a malformed end, end_timestamp[1]    *)
(* raises, the segments are discarded and the Proportional Segmenter's     *)
(* result for 300 s is returned.                                           *)

\* C22 as claimed: a malformed start or end range gives the synthetic
\* times and the loop continues with the segments kept
C22_Claim ==
    [][LoopEntered =>
          LET taken == TakenText
              count == ClaimedCount(taken)
              last == Min(word_index + count - 1, Len(word_timestamps) - 1)
          IN  (/\ count > 0
               /\ \/ Len(word_timestamps[word_index + 1]) < 2
                  \/ Len(word_timestamps[last + 1]) < 2) =>
                  /\ pc' = "loop"
                  /\ ~fellBack'
                  /\ IF StripPunctuation(taken) = <<>>
                     THEN segments' = segments
                     ELSE /\ AppendedOne(taken)
                          /\ IsHalves(segments'[Len(segments')].start, word_index)
                          /\ IsHalves(segments'[Len(segments')].end,
                                      word_index + count)]_vars

-----------------------------------------------------------------------------
(* SpecLoop: the Smart Segmenter for any target count, any unit list and   *)
(* any list of ranges of a small family; SpecLoopFair is the same call     *)
(* left to run: the interpreter executes the next statement of the one     *)
(* thread of the call.                                                     *)

\* text_length values: none, one, a window that ends before the lower
\* punctuation threshold, the default, more units than any list holds
TextLengths == {0, 1, 3, DefaultTextLength, MaxUnits + 1}

\* unit lists: none, one, just under and at the threshold of 10, the longest
LoopUnitLists ==
    {UnitList(n, w, p, <<"fw,">>) :
        n \in {0, 1, 9, 10, MaxUnits},
        w \in {<<"A">>, <<"A", "B">>, <<" ">>}, p \in {0, 5, 11}}

LoopTimeLists ==
    {TimeList(m, bad, FALSE) : m \in {0, 1, 3, MaxTimes}, bad \in {0, 2}}

InitLoop ==
    /\ pc = "smart_call"
    /\ iterations = 0
    /\ tokens \in LoopUnitLists
    /\ text = join(tokens)
    /\ word_timestamps \in LoopTimeLists
    /\ text_length \in TextLengths
    /\ total_duration = 9
    /\ words = <<>>
    /\ word_index = 0
    /\ segments = <<>>
    /\ result = <<>>
    /\ raised = FALSE
    /\ fellBack = FALSE
    /\ NoSerState

NextLoop == SmartEnter \/ SmartIterate \/ SmartReturn

SpecLoop == InitLoop /\ [][NextLoop]_vars

SpecLoopFair == SpecLoop /\ WF_vars(NextLoop)

-----------------------------------------------------------------------------
(* C24.  The loop terminates for every input: each iteration leaves the    *)
(* loop or strictly shortens the remaining unit list and advances the      *)
(* cursor by at least 1, so there are at most min(number of units,         *)
(* len(token_times)) iterations.                                           *)

IterationProgress ==
    [][pc = "loop" =>
          \/ pc' = "smart_done"
          \/ /\ pc' = "loop"
             /\ Len(words') < Len(words)
             /\ word_index' >= word_index + 1]_vars

IterationBound == iterations <= Min(Len(tokens), Len(word_timestamps))

\* C24: every call of the Smart Segmenter returns, each iteration leaving
\* the loop or shortening the unit list and advancing the cursor, within
\* min(number of units, number of ranges) iterations
C24_Terminates ==
    /\ IterationProgress
    /\ []IterationBound
    /\ <>(pc = "smart_done")

\* C24 witness: target count 1, 12 units and 3 ranges: three iterations of
\* one unit and one range each, the bound being reached
C24_Witness ==
    /\ SmartDone
    /\ ~fellBack
    /\ text_length = 1
    /\ Len(tokens) = 12
    /\ Len(word_timestamps) = 3
    /\ iterations = 3
    /\ Len(words) = 9
    /\ Len(result) = 3

-----------------------------------------------------------------------------
(* C25.  Cursor invariant: 0 <= cursor <= len(token_times) throughout the  *)
(* loop; the indexes read (the cursor and the clamped end index) are       *)
(* within the list with end index >= cursor; the entries consumed never    *)
(* exceed len(token_times); units left when the cursor reaches the end of  *)
(* the list are dropped without a segment.                                 *)

CursorInRange ==
    /\ 0 <= word_index
    /\ word_index <= Len(word_timestamps)
    /\ Len(segments) <= word_index

\* an iteration that goes on has read the ranges at the old cursor and at
\* the new cursor - 1, its clamped end index
IndexesInRange ==
    [][(LoopEntered /\ pc' = "loop") =>
          LET end_index == word_index' - 1
          IN  /\ word_index \in 0..(Len(word_timestamps) - 1)
              /\ end_index \in 0..(Len(word_timestamps) - 1)
              /\ end_index >= word_index
              /\ end_index = Min(word_index + ClaimedCount(TakenText) - 1,
                                 Len(word_timestamps) - 1)]_vars

LeftoverDropped ==
    [][(pc = "loop" /\ word_index >= Len(word_timestamps)) =>
          /\ pc' = "smart_done"
          /\ ~fellBack'
          /\ segments' = segments
          /\ result' = segments]_vars

\* C25: the cursor stays within 0..len(token_times), the indexes read are
\* within the list with the end index at or after the cursor, and units
\* left when the ranges are used up are dropped
C25_Cursor ==
    /\ []CursorInRange
    /\ IndexesInRange
    /\ LeftoverDropped

\* C25 witness: 12 units of two characters and 10 ranges: the first segment
\* of 8 units uses up the ranges and the 4 units left are dropped
C25_Witness ==
    /\ SmartDone
    /\ ~fellBack
    /\ Len(word_timestamps) = 10
    /\ word_index = Len(word_timestamps)
    /\ Len(tokens) = 12
    /\ \A i \in 1..12 : tokens[i] = <<"A", "B">>
    /\ Len(words) = 4
    /\ Len(result) = 1
    /\ result = segments

-----------------------------------------------------------------------------
(* The file system under the FunASR engine, and the results of its model.  *)

\* os.path.exists (line 239)
file_exists(fs, name) == \E f \in fs : f.name = name

\* sf.write (lines 139, 187): the file is created or overwritten
sf_write(fs, name, content) ==
    {f \in fs : f.name # name} \cup {[name |-> name, content |-> content]}

\* os.remove (line 241)
os_remove(fs, name) == {f \in fs : f.name # name}

\* what a reader of the file gets
file_content(fs, name) == (CHOOSE f \in fs : f.name = name).content

\* a file of the caller, never a temporary file of the engine
CallerFile == [name |-> "in.wav", content |-> "caller"]

\* line 138: the fixed name of transcribe
FixedName == "temp_audio.wav"

\* line 186: temp_audio_{uuid4().hex}.wav, one name per call
UniqueName(p) == IF p = 1 THEN "temp_audio_1.wav" ELSE "temp_audio_2.wav"

\* the audio of call p
AudioOf(p) == IF p = 1 THEN "audio_1" ELSE "audio_2"

\* the shapes of the value returned by model.generate: None, a dict, a
\* list whose first element is a dict, a string, a list whose first
\* element is a string, the empty list, anything else
ModelResults ==
    {"None", "dict", "list_dict", "str", "list_str", "empty_list", "other"}

\* faulty variant of select_segmenter (C23 must tell it apart): the flag
\* use_smart_segmentation is not consulted
select_segmenter_ignoring_flag(kind, txt, timestamp, use_smart) ==
    IF kind \in {"dict", "list_dict"}
    THEN IF timestamp # <<>> /\ txt # <<>> THEN "smart"
         ELSE IF txt # <<>> THEN "simple"
         ELSE "none"
    ELSE IF kind \in {"str", "list_str"} THEN "simple"
    ELSE "none"

\* lines 208-230: the segmenter the result goes to; txt is the 'text' of a
\* dict or the string itself, timestamp the 'timestamp' of a dict
select_segmenter(kind, txt, timestamp, use_smart) ==
    IF kind \in {"dict", "list_dict"}                       \* lines 212-216
    THEN IF timestamp # <<>> /\ txt # <<>> /\ use_smart     \* line 221
         THEN "smart"
         ELSE IF txt # <<>> THEN "simple"                   \* line 225
         ELSE "none"
    ELSE IF kind \in {"str", "list_str"} THEN "simple"      \* line 229
    ELSE "none"

-----------------------------------------------------------------------------
(* SpecEngine: one call of FunASREngine.transcribe_with_timestamps (lines  *)
(* 158-243) on a path, an array or something else, the model returning any *)
(* shape of result or failing, and the segmenter selected running as in    *)
(* Spec.                                                                   *)

EngineUnitLists ==
    {UnitList(n, <<"A">>, p, <<"fw.">>) : n \in {0, 2, MaxUnits}, p \in {0, 2}}

EngineTimeLists ==
    {TimeList(m, bad, FALSE) : m \in {0, 2, MaxTimes}, bad \in {0, 2}}

InitEngine ==
    /\ pc = "engine_call"
    /\ tokens \in EngineUnitLists
    /\ text = join(tokens)
    /\ word_timestamps \in EngineTimeLists
    /\ text_length = DefaultTextLength
    /\ total_duration = 0
    /\ iterations = 0
    /\ words = <<>>
    /\ word_index = 0
    /\ segments = <<>>
    /\ result = <<>>
    /\ raised = FALSE
    /\ fellBack = FALSE
    /\ ser_segments = <<>>
    /\ output = <<>>
    /\ format = "srt"
    /\ error = <<>>
    /\ key_order = SegmenterKeyOrder
    /\ history = <<>>
    /\ seconds = <<0, 1>>
    /\ whisper_model = FALSE
    /\ funasr_model = TRUE
    /\ native = <<>>
    /\ engine_calls = <<>>
    /\ segmenter_calls = <<>>
    /\ audio_read = TRUE
    /\ audio_kind \in {"path", "array", "other"}
    /\ temp_file = "None"
    /\ files = {CallerFile}
    /\ model_result \in ModelResults
    /\ use_smart_segmentation \in BOOLEAN
    /\ actual_duration = 9          \* the audio lasts 9 s
    /\ calls = <<>>
    /\ swallowed = FALSE

\* what no step of the engine's own code changes
engineRest ==
    <<text, tokens, word_timestamps, text_length, words, word_index, segments,
      result, fellBack, iterations, output, format, key_order, history,
      seconds, whisper_model, funasr_model, native, engine_calls, audio_read,
      audio_kind, model_result, use_smart_segmentation, actual_duration,
      calls>>

\* lines 234-236: the exception is logged and raised again as RuntimeError
EngineRaise ==
    /\ raised' = TRUE
    /\ error' = <<"RuntimeError", "funasr">>
    /\ pc' = "engine_finally"

\* lines 174-192: the input.  A path is handed on after sf.info has read
\* its duration; an array is written to a file of a unique name; anything
\* else is a ValueError.  sf.info and sf.write may fail, sf.write with or
\* without a file left behind.
EngineInput ==
    /\ pc = "engine_call"
    /\ \/ /\ audio_kind = "path"
          /\ \/ /\ pc' = "engine_generate"
                /\ UNCHANGED <<raised, error>>
             \/ EngineRaise
          /\ UNCHANGED <<temp_file, files>>
       \/ /\ audio_kind = "array"
          /\ temp_file' = UniqueName(1)
          /\ \/ /\ files' = sf_write(files, UniqueName(1), AudioOf(1))
                /\ pc' = "engine_generate"
                /\ UNCHANGED <<raised, error>>
             \/ /\ files' \in {files, sf_write(files, UniqueName(1), "partial")}
                /\ EngineRaise
       \/ /\ audio_kind = "other"
          /\ EngineRaise
          /\ UNCHANGED <<temp_file, files>>
    /\ UNCHANGED <<engineRest, total_duration, segmenter_calls, ser_segments,
                   swallowed>>

\* lines 203-232: the model is called; it fails, or its result selects a
\* segmenter, or no segmenter and the empty list
EngineGenerate ==
    /\ pc = "engine_generate"
    /\ \/ /\ EngineRaise
          /\ UNCHANGED <<total_duration, segmenter_calls, ser_segments>>
       \/ /\ select_segmenter(model_result, text, word_timestamps,
                              use_smart_segmentation) = "smart"
          /\ segmenter_calls' = Append(segmenter_calls, "smart")
          /\ pc' = "smart_call"
          /\ UNCHANGED <<total_duration, ser_segments, raised, error>>
       \/ /\ select_segmenter(model_result, text, word_timestamps,
                              use_smart_segmentation) = "simple"
          /\ segmenter_calls' = Append(segmenter_calls, "simple")
          /\ total_duration' = actual_duration
          /\ pc' = "simple_call"
          /\ UNCHANGED <<ser_segments, raised, error>>
       \/ /\ select_segmenter(model_result, text, word_timestamps,
                              use_smart_segmentation) = "none"
          /\ ser_segments' = <<>>
          /\ pc' = "engine_finally"
          /\ UNCHANGED <<total_duration, segmenter_calls, raised, error>>
    /\ UNCHANGED <<engineRest, temp_file, files, swallowed>>

\* line 232: return segments, the value of the segmenter
EngineReturn ==
    /\ pc \in {"smart_done", "simple_done"}
    /\ ser_segments' = result
    /\ pc' = "engine_finally"
    /\ UNCHANGED <<engineRest, total_duration, segmenter_calls, raised, error,
                   temp_file, files, swallowed>>

\* faulty variant of EngineFinally (C27 must tell it apart): the file is
\* removed after a return only, not after an exception
EngineFinallyAfterReturnOnly ==
    /\ pc = "engine_finally"
    /\ IF temp_file # "None" /\ file_exists(files, temp_file) /\ ~raised
       THEN \/ /\ files' = os_remove(files, temp_file)
               /\ UNCHANGED swallowed
            \/ /\ swallowed' = TRUE
               /\ UNCHANGED files
       ELSE UNCHANGED <<files, swallowed>>
    /\ pc' = IF raised THEN "engine_raised" ELSE "engine_done"
    /\ UNCHANGED <<engineRest, total_duration, segmenter_calls, raised, error,
                   temp_file, ser_segments>>

\* lines 237-243: the finally clause, run after the return and after the
\* exception alike; os.remove removes the file, or raises and the exception
\* is swallowed
EngineFinally ==
    /\ pc = "engine_finally"
    /\ IF temp_file # "None" /\ file_exists(files, temp_file)
       THEN \/ /\ files' = os_remove(files, temp_file)
               /\ UNCHANGED swallowed
            \/ /\ swallowed' = TRUE
               /\ UNCHANGED files
       ELSE UNCHANGED <<files, swallowed>>
    /\ pc' = IF raised THEN "engine_raised" ELSE "engine_done"
    /\ UNCHANGED <<engineRest, total_duration, segmenter_calls, raised, error,
                   temp_file, ser_segments>>

NextEngine ==
    \/ EngineInput
    \/ EngineGenerate
    \/ SmartEnter
    \/ SmartIterate
    \/ SmartReturn
    \/ SimpleCall
    \/ EngineReturn
    \/ EngineFinally

SpecEngine == InitEngine /\ [][NextEngine]_vars

-----------------------------------------------------------------------------
(* C23.  Segmenter selection for the result of the model: a dict goes to   *)
(* the Smart Segmenter iff its timestamp list and its text are non-empty   *)
(* and use_smart_segmentation is true; otherwise a non-empty text goes to  *)
(* the Proportional Segmenter with the actual duration; an empty text or a *)
(* None result gives the empty sequence; a string always goes to the       *)
(* Proportional Segmenter with the actual duration.                        *)

EngineReturned == pc = "engine_done"

DictResult == model_result \in {"dict", "list_dict"}

SmartWanted ==
    /\ word_timestamps # <<>>
    /\ text # <<>>
    /\ use_smart_segmentation

\* the value returned is that of the Proportional Segmenter for the actual
\* duration of the audio, the only segmenter called
ProportionalWithActualDuration ==
    /\ segmenter_calls = <<"simple">>
    /\ total_duration = actual_duration
    /\ actual_duration # FallbackDuration
    /\ ser_segments = simple_segment_by_punctuation(text, actual_duration)
    /\ \A i \in 1..Len(ser_segments) :
           RatLeq(ser_segments[i].end, <<actual_duration, 1>>)

\* C23: once the call has returned, the segmenter used is the one the
\* result, the text, the timestamp list and the flag select
C23_Selection ==
    EngineReturned =>
        /\ DictResult =>
              /\ (segmenter_calls = <<"smart">>) <=> SmartWanted
              /\ (~SmartWanted /\ text # <<>>) => ProportionalWithActualDuration
              /\ text = <<>> => (segmenter_calls = <<>> /\ ser_segments = <<>>)
        /\ model_result = "None" =>
              (segmenter_calls = <<>> /\ ser_segments = <<>>)
        /\ model_result \in {"str", "list_str"} => ProportionalWithActualDuration

\* C23 witness: a dict with text and timestamps while the flag is off: the
\* Proportional Segmenter gives two sentences over the 9 s of the audio
C23_Witness ==
    /\ EngineReturned
    /\ model_result = "dict"
    /\ ~use_smart_segmentation
    /\ Len(word_timestamps) = 10
    /\ Len(text) = 12
    /\ segmenter_calls = <<"simple">>
    /\ Len(ser_segments) = 2
    /\ ser_segments[1].end = <<9, 2>>
    /\ ser_segments[2].end = <<9, 1>>

-----------------------------------------------------------------------------
(* C27.  Cleanup of the temporary file: with an array input the file the   *)
(* call created no longer exists once the call has returned or raised;     *)
(* with a path input no file is created and the caller's file is kept.     *)
(* The finally clause swallows a failure of os.remove (lines 240-243), and *)
(* then the file remains.                                                  *)

EngineLeft == pc \in {"engine_done", "engine_raised"}

PathUntouched ==
    audio_kind = "path" => (temp_file = "None" /\ files = {CallerFile})

\* C27 as claimed: after the call the temporary file does not exist
C27_Original ==
    EngineLeft =>
        /\ audio_kind = "array" => ~file_exists(files, UniqueName(1))
        /\ PathUntouched

\* C27 amended: after the call the temporary file does not exist unless
\* os.remove failed, the failure being swallowed; the caller's file is kept
\* on every path
C27_Amended ==
    /\ EngineLeft =>
          /\ audio_kind = "array" =>
                (file_exists(files, UniqueName(1)) <=> swallowed)
          /\ PathUntouched
    /\ CallerFile \in files
    /\ swallowed => (audio_kind = "array" /\ temp_file = UniqueName(1))

\* C27 witness: the model failed on an array input and the file written
\* for it is gone when the RuntimeError leaves the call
C27_Witness ==
    /\ pc = "engine_raised"
    /\ audio_kind = "array"
    /\ temp_file = UniqueName(1)
    /\ segmenter_calls = <<>>
    /\ files = {CallerFile}
    /\ ~swallowed

-----------------------------------------------------------------------------
(* The node AudioVideoToText.transcribe (audio_to_text.py, lines 28-63)    *)
(* and SpecNodes: one execution of either node.                            *)

\* FunASREngine.transcribe, lines 148-153: the 'text' of the first element
\* of a list result if that element is a dict, the empty string otherwise
extract_text(kind, txt) == IF kind = "list_dict" THEN txt ELSE <<>>

InitTextNode ==
    /\ pc = "text_call"
    /\ whisper_model \in BOOLEAN
    /\ funasr_model \in BOOLEAN
    /\ text \in NodeTexts
    /\ model_result \in ModelResults
    /\ audio_kind \in {"path", "array"}
    /\ files = {CallerFile}
    /\ temp_file = "None"
    /\ audio_read = FALSE
    /\ use_smart_segmentation = TRUE
    /\ actual_duration = 0
    /\ calls = <<>>
    /\ swallowed = FALSE
    /\ total_duration = 0
    /\ result = <<>>
    /\ raised = FALSE
    /\ ser_segments = <<>>
    /\ output = <<>>
    /\ format = "srt"
    /\ error = <<>>
    /\ key_order = SegmenterKeyOrder
    /\ history = <<>>
    /\ seconds = <<0, 1>>
    /\ native = <<>>
    /\ engine_calls = <<>>
    /\ segmenter_calls = <<>>
    /\ NoSmartState

\* what no step of the text node changes
textRest ==
    <<inVars, words, word_index, segments, result, fellBack, iterations,
      ser_segments, format, key_order, history, seconds, whisper_model,
      funasr_model, native, segmenter_calls, audio_kind, model_result,
      use_smart_segmentation, actual_duration, calls, swallowed>>

\* lines 40-45: the check of the models, then the audio is read
TextValidate ==
    /\ pc = "text_call"
    /\ audio_read' = (funasr_model \/ whisper_model)
    /\ IF ~funasr_model /\ ~whisper_model
       THEN /\ raised' = TRUE
            /\ error' = <<"ValueError", "model">>
            /\ pc' = "text_raised"
       ELSE /\ pc' = "text_engine"
            /\ UNCHANGED <<raised, error>>
    /\ UNCHANGED <<textRest, output, engine_calls, temp_file, files>>

\* lines 48-54: the Whisper engine is called; it returns result['text'] of
\* its model or raises RuntimeError (whisper_engine.py, lines 56-88)
TextWhisper ==
    /\ pc = "text_engine"
    /\ whisper_model
    /\ engine_calls' = Append(engine_calls, "whisper")
    /\ \/ /\ output' = text
          /\ pc' = "text_done"
          /\ UNCHANGED <<raised, error>>
       \/ /\ raised' = TRUE
          /\ error' = <<"RuntimeError", "whisper">>
          /\ pc' = "text_raised"
          /\ UNCHANGED output
    /\ UNCHANGED <<textRest, audio_read, temp_file, files>>

\* faulty variant of TextFunASR (C26 must tell it apart): the FunASR engine
\* is called whenever a FunASR model is supplied
TextFunASRBesideWhisper ==
    /\ pc = "text_engine"
    /\ funasr_model
    /\ engine_calls' = Append(engine_calls, "funasr")
    /\ files' = IF audio_kind = "array"
                THEN sf_write(files, FixedName, AudioOf(1))
                ELSE files
    /\ \/ /\ output' = extract_text(model_result, text)
          /\ pc' = "text_done"
          /\ UNCHANGED <<raised, error>>
       \/ /\ raised' = TRUE
          /\ error' = <<"RuntimeError", "funasr">>
          /\ pc' = "text_raised"
          /\ UNCHANGED output
    /\ UNCHANGED <<textRest, audio_read, temp_file>>

\* lines 57-60: reached without a Whisper model only; the FunASR engine is
\* called (funasr_engine.py, lines 116-156): an array is written to the
\* file of the fixed name, the model is called, and the text of its result
\* is returned, or its failure raised as RuntimeError
TextFunASR ==
    /\ pc = "text_engine"
    /\ ~whisper_model
    /\ funasr_model
    /\ engine_calls' = Append(engine_calls, "funasr")
    /\ files' = IF audio_kind = "array"
                THEN sf_write(files, FixedName, AudioOf(1))
                ELSE files
    /\ \/ /\ output' = extract_text(model_result, text)
          /\ pc' = "text_done"
          /\ UNCHANGED <<raised, error>>
       \/ /\ raised' = TRUE
          /\ error' = <<"RuntimeError", "funasr">>
          /\ pc' = "text_raised"
          /\ UNCHANGED output
    /\ UNCHANGED <<textRest, audio_read, temp_file>>

InitNodes == InitNode \/ InitTextNode

NextNodes ==
    \/ NodeValidate
    \/ NodeWhisper
    \/ NodeFunASR
    \/ NodeFormat
    \/ TextValidate
    \/ TextWhisper
    \/ TextFunASR

SpecNodes == InitNodes /\ [][NextNodes]_vars

-----------------------------------------------------------------------------
(* C26.  Engine selection in both nodes: without any model a ValueError is *)
(* raised before the audio is read or an engine called; a Whisper model,   *)
(* if supplied, is the only engine called; the FunASR engine is called     *)
(* only without a Whisper model; a successful execution makes exactly one  *)
(* engine call.                                                            *)

NodeStarted == pc \notin {"node_call", "text_call"}

NodeSucceeded == pc \in {"node_done", "text_done"}

EngineCalled(e) == \E i \in 1..Len(engine_calls) : engine_calls[i] = e

\* C26: no model, no audio read and no engine call but a ValueError; with a
\* Whisper model no FunASR call; one engine call per successful execution
C26_EngineSelection ==
    /\ (NodeStarted /\ ~funasr_model /\ ~whisper_model) =>
          /\ raised
          /\ error = <<"ValueError", "model">>
          /\ ~audio_read
          /\ engine_calls = <<>>
    /\ whisper_model => ~EngineCalled("funasr")
    /\ EngineCalled("funasr") => (funasr_model /\ ~whisper_model)
    /\ EngineCalled("whisper") => whisper_model
    /\ Len(engine_calls) <= 1
    /\ NodeSucceeded => Len(engine_calls) = 1

\* C26 witness: the text node given both models has returned the text of
\* the Whisper engine, the only engine called
C26_Witness ==
    /\ pc = "text_done"
    /\ whisper_model
    /\ funasr_model
    /\ audio_read
    /\ engine_calls = <<"whisper">>
    /\ output = text
    /\ text # <<>>

-----------------------------------------------------------------------------
(* SpecFiles: two calls of the FunASR engine on two threads, each of       *)
(* transcribe (lines 116-156) or transcribe_with_timestamps (lines         *)
(* 158-243), each on an array or on the caller's file, their file-system   *)
(* operations interleaved in any order.  A call's state is its record in   *)
(* calls: where it stands, the file handed to the model, the local         *)
(* temp_file, and what the model read.                                     *)

Procs == {1, 2}

Methods == {"transcribe", "transcribe_with_timestamps"}

NewCall(m, k) ==
    [method |-> m, input |-> k, pc |-> "input", audio_input |-> "None",
     temp_file |-> "None", heard |-> "None", raised |-> FALSE]

InitFiles ==
    /\ pc = "threads"
    /\ calls \in {<<NewCall(m1, k1), NewCall(m2, k2)>> :
                     m1 \in Methods, m2 \in Methods,
                     k1 \in {"array", "path"}, k2 \in {"array", "path"}}
    /\ files = {CallerFile}
    /\ audio_read = FALSE
    /\ audio_kind = "array"
    /\ temp_file = "None"
    /\ model_result = "None"
    /\ use_smart_segmentation = TRUE
    /\ actual_duration = 0
    /\ swallowed = FALSE
    /\ text = <<>>
    /\ total_duration = 0
    /\ result = <<>>
    /\ raised = FALSE
    /\ ser_segments = <<>>
    /\ output = <<>>
    /\ format = "srt"
    /\ error = <<>>
    /\ key_order = SegmenterKeyOrder
    /\ history = <<>>
    /\ seconds = <<0, 1>>
    /\ whisper_model = FALSE
    /\ funasr_model = TRUE
    /\ native = <<>>
    /\ engine_calls = <<>>
    /\ segmenter_calls = <<>>
    /\ NoSmartState

\* what the threads share is the file system only
filesRest ==
    <<pc, inVars, words, word_index, segments, result, raised, fellBack,
      iterations, ser_segments, output, nodeVars, audio_read, audio_kind,
      temp_file, model_result, use_smart_segmentation, actual_duration,
      swallowed>>

\* the name of the file an array is written to: line 138, line 186
temp_name(m, p) == IF m = "transcribe" THEN FixedName ELSE UniqueName(p)

\* lines 131-140 and 176-190: a path is handed to the model as it is, an
\* array is written to the temporary file and the file's name handed on
CallInput(p) ==
    /\ calls[p].pc = "input"
    /\ IF calls[p].input = "path"
       THEN /\ calls' = [calls EXCEPT ![p].audio_input = CallerFile.name,
                                      ![p].pc = "generate"]
            /\ UNCHANGED files
       ELSE LET name == temp_name(calls[p].method, p)
            IN  /\ files' = sf_write(files, name, AudioOf(p))
                /\ calls' = [calls EXCEPT
                        ![p].audio_input = name,
                        ![p].temp_file =
                            IF calls[p].method = "transcribe_with_timestamps"
                            THEN name ELSE "None",
                        ![p].pc = "generate"]
    /\ UNCHANGED filesRest

\* lines 145 and 203: the model reads the file it was handed, and fails if
\* there is none; transcribe is left here, transcribe_with_timestamps goes
\* on to its finally clause
CallGenerate(p) ==
    /\ calls[p].pc = "generate"
    /\ LET there == file_exists(files, calls[p].audio_input)
       IN  calls' = [calls EXCEPT
               ![p].heard = IF there
                            THEN file_content(files, calls[p].audio_input)
                            ELSE "missing",
               ![p].raised = ~there,
               ![p].pc = IF calls[p].method = "transcribe_with_timestamps"
                         THEN "finally" ELSE "done"]
    /\ UNCHANGED <<files, filesRest>>

\* lines 237-243: transcribe_with_timestamps removes its temporary file, a
\* failure of os.remove being swallowed
CallFinally(p) ==
    /\ calls[p].pc = "finally"
    /\ IF calls[p].temp_file # "None" /\ file_exists(files, calls[p].temp_file)
       THEN \/ files' = os_remove(files, calls[p].temp_file)
            \/ UNCHANGED files
       ELSE UNCHANGED files
    /\ calls' = [calls EXCEPT ![p].pc = "done"]
    /\ UNCHANGED filesRest

NextFiles == \E p \in Procs : CallInput(p) \/ CallGenerate(p) \/ CallFinally(p)

SpecFiles == InitFiles /\ [][NextFiles]_vars

-----------------------------------------------------------------------------
(* C28.  Isolation of the temporary files: when two calls on arrays        *)
(* interleave, the model of each call reads the audio that call wrote, and *)
(* no call overwrites or removes a file another call is still using; for   *)
(* transcribe_with_timestamps and for transcribe.  transcribe writes every *)
(* array to temp_audio.wav (line 138): the second write replaces the audio *)
(* the first call's model is about to read.                                *)

\* the model of call p has read a file
HasHeard(p) == calls[p].heard # "None"

\* call p has written its array and its model has not read it yet
Using(p) == calls[p].input = "array" /\ calls[p].pc = "generate"

ReadsOwnAudio ==
    \A p \in Procs :
        (calls[p].input = "array" /\ HasHeard(p)) => calls[p].heard = AudioOf(p)

FilesInUseKept ==
    [][\A p \in Procs :
          Using(p) =>
              [name |-> calls[p].audio_input, content |-> AudioOf(p)] \in files']_vars

\* C28 as claimed: each call's model reads the audio of its own call and a
\* file in use is neither overwritten nor removed by another call
C28_Claim ==
    /\ []ReadsOwnAudio
    /\ FilesInUseKept

\* the part of C28 that holds: calls of transcribe_with_timestamps read
\* their own audio
TimestampCallsIsolated ==
    \A p \in Procs :
        (/\ calls[p].method = "transcribe_with_timestamps"
         /\ calls[p].input = "array"
         /\ HasHeard(p)) => calls[p].heard = AudioOf(p)

====
